---- MODULE Spec2Model ----
(***************************************************************************)
(* VoxelTest: the deferred command protocol (setup / update / render       *)
(* command buffers interpreted by App), the frustum + distance visibility  *)
(* filter, and the bit-packed voxel Block.                                 *)
(*                                                                         *)
(* Eight specifications share the module:                                  *)
(*   SpecBlock  chunks.rs  Block::new / with_position / with_id            *)
(*   SpecChunk  chunks.rs  Chunk::new / add_block_data / setup / render    *)
(*   SpecBlocks chunks.rs  Chunk::add_block / remove_block / exists_block  *)
(*   SpecCull   frustum.rs FrustumCuller::test_bounding_box                *)
(*   SpecInterp app.rs     parse_setup_command / parse_update_command /    *)
(*                         parse_render_command, one command per call      *)
(*   SpecRegistry app.rs   add_actor / add_model / RemoveActor /           *)
(*                         RemoveModel on the two registries               *)
(*   SpecInput  input.rs   InputState: cursor events, mouse_delta, update  *)
(*   Spec       app.rs     the frame loop App::update ; App::render        *)
(* f32 quantities are modelled by integers: plane equations are kept up to *)
(* a positive scale factor (which no sign test depends on), positions and  *)
(* distances are integer vectors.                                          *)
(***************************************************************************)
EXTENDS Integers, Sequences, FiniteSets, TLC

VARIABLES
    \* ---- chunks.rs: one Block under construction
    blkOrig,      \* the u32 handed to Block::new
    blkPrev,      \* Block.data before the last builder call
    blk,          \* Block.data
    blkPos,       \* argument of the with_position call made, if one was
    blkId,        \* argument of the with_id call made, if one was
    blkOrder,     \* the builder calls made, in call order
    \* ---- frustum.rs: one culler and the boxes tested against it
    culler,       \* the FrustumCuller: six planes
    aab,          \* the Aabb under test
    cullResult,   \* test_bounding_box(aab), or None before the call
    cullPrevBox,  \* the box tested before aab was shrunk to its present size
    cullPrev,     \* the result for cullPrevBox, or None
    cullSteps,    \* history: the plane tests the last test_bounding_box evaluated
    \* ---- app.rs: App
    pc,           \* where the frame loop stands: idle, update, render, draw
    aborted,      \* the process panicked
    actors,       \* ActorState.actors: the ids of the registered actors
    models,       \* ModelState.models: the registered NModels
    camera,       \* Camera: position, yaw, pitch
    viewProj,     \* CameraUniform.view_proj
    buffers,      \* App::update: the buffer each actor's update() returned
    appliedLog,   \* App::update: the <<buffer, command>> places interpreted
    culling,      \* App::render: the FrustumCuller of the frame
    camPosition,  \* App::render: cam_position
    drawList,     \* App::render: the collected (model, render buffer) pairs
    drawLog,      \* App::render: the render commands interpreted
    frameActors,  \* history: the actor registry when the frame's update began
    frameModels,  \* history: the model registry when the frame's update began
    camStart,     \* history: the camera when the frame's update began
    unapplied,    \* history: commands of the frame left over when update ended
    objModels,    \* App.obj_models: how many meshes register_model has loaded
    setupTrace,   \* history: what the last setup loop did, command by command
    pipelineRefs, \* the strong count of every live Rc<RenderPipeline>
    \* ---- app.rs: the command interpreters called one command at a time
    nModel,       \* the NModel handed to parse_setup_command
    lastCall,     \* history: the interpreter call made last and what it did
    \* ---- chunks.rs: one Chunk
    chunk,        \* the Chunk: id, position, aabb, blocks, block_data
    chunkAdded,   \* history: the <<position, id>> of every add_block_data call
    chunkSetup,   \* the commands of the buffer the last setup() returned
    chunkRender,  \* the commands of the buffer the last render() returned
    chunkCall,    \* history: the method of Chunk called last
    chunkArg,     \* history: the position handed to the last remove_block
    \* ---- input.rs: App.input_state
    inputState,   \* InputState: mouse_delta, last_mouse_position, mouse_sample
    inputSum,     \* history: the cursor movement summed up since the last update()
    inputReads,   \* history: what mouse_delta() returned to each actor of the frame
    \* ---- camera.rs: App.projection
    projection    \* Projection: fov_y (hundredths of a radian) and z_far

blockVars == <<blkOrig, blkPrev, blk, blkPos, blkId, blkOrder>>

cullVars == <<culler, aab, cullResult, cullPrevBox, cullPrev, cullSteps>>

appVars ==
    <<pc, aborted, actors, models, camera, viewProj, buffers, appliedLog, culling,
      camPosition, drawList, drawLog, frameActors, frameModels, camStart, unapplied,
      objModels, setupTrace, pipelineRefs>>

resVars == <<objModels, setupTrace, pipelineRefs>>

interpVars == <<nModel, lastCall>>

inputVars == <<inputState, inputSum, inputReads>>

projVars == <<projection>>

chunkVars == <<chunk, chunkAdded, chunkSetup, chunkRender, chunkCall, chunkArg>>

vars == <<blockVars, cullVars, appVars, interpVars, chunkVars, inputVars, projVars>>

None == "none"

(***************************************************************************)
(* u32 arithmetic.  A u32 is its 32 bits, least significant first, so that *)
(* shifts lose exactly the bits a 32-bit register loses.                   *)
(***************************************************************************)
Width == 32

Bit == {0, 1}

\* the u32 of a natural number below 2^31
ToU32(x) == [i \in 1 .. Width |-> IF i = Width THEN 0 ELSE (x \div (2 ^ (i - 1))) % 2]

RECURSIVE ValueFrom(_, _)
ValueFrom(b, i) == IF i >= Width THEN 0 ELSE b[i] + 2 * ValueFrom(b, i + 1)

\* the natural number of a u32 whose top bit is clear
ToNat(b) == ValueFrom(b, 1)

\* x << n
Shl(b, n) == [i \in 1 .. Width |-> IF i > n THEN b[i - n] ELSE 0]

\* x >> n
Shr(b, n) == [i \in 1 .. Width |-> IF i + n <= Width THEN b[i + n] ELSE 0]

\* x | y
BitOr(a, b) == [i \in 1 .. Width |-> IF a[i] = 1 \/ b[i] = 1 THEN 1 ELSE 0]

\* x & y
BitAnd(a, b) == [i \in 1 .. Width |-> IF a[i] = 1 /\ b[i] = 1 THEN 1 ELSE 0]

(***************************************************************************)
(* chunks.rs: Block.  Block.data is a u32; positions are UVec3 (three      *)
(* u32, here naturals) and ids are u16 (naturals below 65536).             *)
(***************************************************************************)
\* bits per axis of the packed local position
PosBits == 3

\* the masks of the accessors: 0b111111111, 0b111000000, 0b111000, 0b111, 0xffff
PositionMask == ToU32(511)

XMask == ToU32(448)

YMask == ToU32(56)

ZMask == ToU32(7)

IdMask == ToU32(65535)

\* the id is a u16
IdBits == 16

\* Block::with_position: pos = x << 6 | y << 3 | z; data = (data >> 9) << 9 | pos
\* (for comparison) a with_position that would drop the bits above the position
WithPositionClobber(data, p) ==
    BitOr(BitOr(Shl(ToU32(p[1]), 6), Shl(ToU32(p[2]), 3)), ToU32(p[3]))

WithPosition(data, p) ==
    LET pos == BitOr(BitOr(Shl(ToU32(p[1]), 6), Shl(ToU32(p[2]), 3)), ToU32(p[3]))
        d   == Shr(data, 9)
    IN  BitOr(Shl(d, 9), pos)

\* Block::with_id: data = (data >> 25) << 25 | (id as u32) << 9 | (data & 0x1ff)
\* (for comparison) a with_id that would shift the id one bit short
WithIdShift8(data, id) ==
    LET position == BitAnd(data, PositionMask)
        d        == Shr(data, 25)
    IN  BitOr(BitOr(Shl(d, 25), Shl(ToU32(id), 8)), position)

WithId(data, id) ==
    LET position == BitAnd(data, PositionMask)
        d        == Shr(data, 25)
    IN  BitOr(BitOr(Shl(d, 25), Shl(ToU32(id), 9)), position)

\* Block::x / y / z
BlockX(data) == ToNat(Shr(BitAnd(data, XMask), 6))

BlockY(data) == ToNat(Shr(BitAnd(data, YMask), 3))

BlockZ(data) == ToNat(BitAnd(data, ZMask))

\* Block::position
BlockPosition(data) ==
    LET position == BitAnd(data, PositionMask)
    IN  <<ToNat(Shr(position, 6)),
          ToNat(BitAnd(Shr(position, 3), ZMask)),
          ToNat(BitAnd(position, ZMask))>>

\* Block::id
BlockId(data) == ToNat(BitAnd(Shr(data, 9), IdMask))

\* the bits above the id field (bits 25..31), which no accessor reads
BlockHigh(data) == ToNat(Shr(data, PosBits * 3 + IdBits))

\* a coordinate that fits the per-axis field
FitsAxis(c) == c < 2 ^ PosBits

FitsPosition(p) == FitsAxis(p[1]) /\ FitsAxis(p[2]) /\ FitsAxis(p[3])

\* ---- inputs of SpecBlock
MaxCoord == 7

Coords == 0 .. MaxCoord

\* UVec3 values a caller may pass although a component is wider than the
\* per-axis field
WidePositions == {<<8, 0, 0>>, <<0, 8, 0>>, <<0, 0, 8>>, <<1, 2, 11>>, <<65536, 0, 7>>}

Positions == {<<x, y, z>> : x \in Coords, y \in Coords, z \in Coords} \cup WidePositions

IdSamples == {0, 7, 43690, 65535}

\* 32-bit values with every field populated: high bits, id and position
OrigSamples ==
    {BitOr(BitOr(Shl(ToU32(h), 25), Shl(ToU32(i), 9)), ToU32(p)) :
        h \in {0, 127}, i \in {0, 43690, 65535}, p \in {0, 341, 511}}

InitBlock ==
    /\ blkOrig \in OrigSamples
    /\ blk = blkOrig
    /\ blkPrev = blkOrig
    /\ blkPos = <<0, 0, 0>>
    /\ blkId = 0
    /\ blkOrder = <<>>

\* the state of the Block variables in the specifications that build no Block
IdleBlock ==
    /\ blkOrig = ToU32(0)
    /\ blk = ToU32(0)
    /\ blkPrev = ToU32(0)
    /\ blkPos = <<0, 0, 0>>
    /\ blkId = 0
    /\ blkOrder = <<>>

Called(op) == \E k \in DOMAIN blkOrder : blkOrder[k] = op

\* block = block.with_position(p)
CallWithPosition ==
    /\ ~Called("with_position")
    /\ \E p \in Positions :
          /\ blkPos' = p
          /\ blk' = WithPosition(blk, p)
    /\ blkPrev' = blk
    /\ blkOrder' = Append(blkOrder, "with_position")
    /\ UNCHANGED <<blkOrig, blkId, cullVars, appVars, interpVars, chunkVars, inputVars, projVars>>

\* block = block.with_id(id)
CallWithId ==
    /\ ~Called("with_id")
    /\ \E i \in IdSamples :
          /\ blkId' = i
          /\ blk' = WithId(blk, i)
    /\ blkPrev' = blk
    /\ blkOrder' = Append(blkOrder, "with_id")
    /\ UNCHANGED <<blkOrig, blkPos, cullVars, appVars, interpVars, chunkVars, inputVars, projVars>>

NextBlock == CallWithPosition \/ CallWithId

C2_LastCall == IF blkOrder = <<>> THEN None ELSE blkOrder[Len(blkOrder)]

\* C1: a block built from the default block by with_position(p) and
\* with_id(i), in either call order, with p inside the field width, decodes
\* to position() = p, x() / y() / z() = the components of p, and id() = i.
C1_RoundTrip ==
    (blkOrig = ToU32(0) /\ Called("with_position") /\ Called("with_id")
        /\ FitsPosition(blkPos))
        => /\ BlockPosition(blk) = blkPos
           /\ BlockX(blk) = blkPos[1]
           /\ BlockY(blk) = blkPos[2]
           /\ BlockZ(blk) = blkPos[3]
           /\ BlockId(blk) = blkId

C1_Witness ==
    /\ blkOrig = ToU32(0)
    /\ blkOrder = <<"with_position", "with_id">>
    /\ blkPos = <<1, 2, 3>>
    /\ blkId = 7
    /\ blk = ToU32(3667)

\* C2: from any 32-bit value, with_position(p) (p inside the field width)
\* sets position() to p and leaves id() and the high bits alone; with_id(i)
\* sets id() to i and leaves position() and the high bits alone; and the two
\* calls give the same packed integer in either order.
C2_FieldIndependence ==
    /\ (C2_LastCall = "with_position" /\ FitsPosition(blkPos))
          => /\ BlockPosition(blk) = blkPos
             /\ BlockId(blk) = BlockId(blkPrev)
             /\ BlockHigh(blk) = BlockHigh(blkPrev)
    /\ (C2_LastCall = "with_id")
          => /\ BlockId(blk) = blkId
             /\ BlockPosition(blk) = BlockPosition(blkPrev)
             /\ BlockHigh(blk) = BlockHigh(blkPrev)
    /\ (blkOrder = <<"with_position", "with_id">> /\ FitsPosition(blkPos))
          => blk = WithPosition(WithId(blkOrig, blkId), blkPos)
    /\ (blkOrder = <<"with_id", "with_position">> /\ FitsPosition(blkPos))
          => blk = WithId(WithPosition(blkOrig, blkPos), blkId)

C2_Witness ==
    /\ BlockHigh(blkOrig) = 127 /\ BlockId(blkOrig) = 43690 /\ BlockPosition(blkOrig) = <<5, 2, 5>>
    /\ blkOrder = <<"with_id", "with_position">>
    /\ blkPos = <<7, 0, 5>>
    /\ blkId = 7
    /\ BlockHigh(blk) = 127

(***************************************************************************)
(* camera.rs: Camera and the view-projection matrix.                       *)
(* Angles are counted in steps of 45 degrees for the pitch and of 90       *)
(* degrees for the yaw; SAFE_FRAC_PI_2 is PitchLimit steps.  Sines and     *)
(* cosines are scaled by 7 (5/7 standing for sin 45).                      *)
(***************************************************************************)
\* SAFE_FRAC_PI_2, in pitch steps
PitchLimit == 2

\* Projection.z_far
ZFar == 4096

\* Camera::new((0.0, 5.0, 10.0), -1.57, -0.35) of App::new: a quarter turn
\* back for the yaw, the pitch at the nearest step
InitCamera == [position |-> <<0, 5, 10>>, yaw |-> -1, pitch |-> 0]

Dot(a, b) == a[1] * b[1] + a[2] * b[2] + a[3] * b[3]

VAdd(a, b) == <<a[1] + b[1], a[2] + b[2], a[3] + b[3]>>

VSub(a, b) == <<a[1] - b[1], a[2] - b[2], a[3] - b[3]>>

VScale(k, a) == <<k * a[1], k * a[2], k * a[3]>>

\* (cos yaw, 0, sin yaw)
YawDir(yaw) ==
    CASE yaw % 4 = 0 -> <<1, 0, 0>>
      [] yaw % 4 = 1 -> <<0, 0, 1>>
      [] yaw % 4 = 2 -> <<-1, 0, 0>>
      [] yaw % 4 = 3 -> <<0, 0, -1>>

CosPitch(pitch) ==
    CASE pitch = 0 -> 7
      [] pitch \in {-1, 1} -> 5
      [] OTHER -> 0

SinPitch(pitch) ==
    CASE pitch = 0 -> 0
      [] pitch = 1 -> 5
      [] pitch = -1 -> -5
      [] pitch >= 2 -> 7
      [] OTHER -> -7

\* Camera::calc_matrix composed with Projection::calc_matrix, as
\* CameraUniform::update_view_proj stores it: the matrix is determined by the
\* camera's position, yaw and pitch (the projection never changes).
ViewProj(cam) == [position |-> cam.position, yaw |-> cam.yaw, pitch |-> cam.pitch]

(***************************************************************************)
(* frustum.rs: FrustumCuller.  A plane <<x, y, z, w>> holds the points v   *)
(* with x*v.x + y*v.y + z*v.z >= -w on its inner side.                     *)
(***************************************************************************)
Plane(n, w) == <<n[1], n[2], n[3], w>>

\* FrustumCuller::from_matrix: the six clip planes of the matrix.  For a view
\* from the eye along `forward`, with the field of view of App::new (0.78
\* rad, whose half has the tangent 2/5, on a square window), they are
\* 2 forward +- 5 right, 2 forward +- 5 up, forward and -forward, through the
\* eye (the far plane z_far further on).  The normalisation by the normal's
\* length scales a plane by a positive factor and is left out.
FromMatrix(m) ==
    LET d       == YawDir(m.yaw)
        forward == VAdd(VScale(CosPitch(m.pitch), d), <<0, SinPitch(m.pitch), 0>>)
        right   == VScale(7, YawDir(m.yaw + 1))
        up      == VAdd(VScale(-SinPitch(m.pitch), d), <<0, CosPitch(m.pitch), 0>>)
        Through(n) == Plane(n, -Dot(n, m.position))
    IN  [nx |-> Through(VAdd(VScale(2, forward), VScale(5, right))),
         px |-> Through(VSub(VScale(2, forward), VScale(5, right))),
         ny |-> Through(VAdd(VScale(2, forward), VScale(5, up))),
         py |-> Through(VSub(VScale(2, forward), VScale(5, up))),
         nz |-> Through(forward),
         pz |-> Plane(VScale(-1, forward), Dot(forward, m.position) + 7 * ZFar)]

\* the corner test_bounding_box picks first for a plane: min where the
\* normal component is negative, max elsewhere
FarCorner(p, b) ==
    <<IF p[1] < 0 THEN b.min[1] ELSE b.max[1],
      IF p[2] < 0 THEN b.min[2] ELSE b.max[2],
      IF p[3] < 0 THEN b.min[3] ELSE b.max[3]>>

\* the corner it picks second: max where the normal component is negative
NearCorner(p, b) ==
    <<IF p[1] < 0 THEN b.max[1] ELSE b.min[1],
      IF p[2] < 0 THEN b.max[2] ELSE b.min[2],
      IF p[3] < 0 THEN b.max[3] ELSE b.min[3]>>

\* p.x * v.x + p.y * v.y + p.z * v.z >= -p.w
OnInnerSide(p, v) == p[1] * v[1] + p[2] * v[2] + p[3] * v[3] >= -p[4]

\* FrustumCuller::test_bounding_box: six nested ifs on the first corner, the
\* second corner's test and-ed into `inside` on the way down.
\* (for comparison) a test that would leave the far plane's second corner out of `inside`
TestBoundingBoxNoFarSide(c, b) ==
    IF /\ OnInnerSide(c.nx, FarCorner(c.nx, b))
       /\ OnInnerSide(c.px, FarCorner(c.px, b))
       /\ OnInnerSide(c.ny, FarCorner(c.ny, b))
       /\ OnInnerSide(c.py, FarCorner(c.py, b))
       /\ OnInnerSide(c.nz, FarCorner(c.nz, b))
       /\ OnInnerSide(c.pz, FarCorner(c.pz, b))
    THEN IF /\ OnInnerSide(c.nx, NearCorner(c.nx, b))
            /\ OnInnerSide(c.px, NearCorner(c.px, b))
            /\ OnInnerSide(c.ny, NearCorner(c.ny, b))
            /\ OnInnerSide(c.py, NearCorner(c.py, b))
            /\ OnInnerSide(c.nz, NearCorner(c.nz, b))
         THEN "Inside" ELSE "Partial"
    ELSE "Outside"

\* (for comparison) a test that would assign `inside` (=) where the code accumulates it (&=)
TestBoundingBoxLastPlaneOnly(c, b) ==
    IF /\ OnInnerSide(c.nx, FarCorner(c.nx, b))
       /\ OnInnerSide(c.px, FarCorner(c.px, b))
       /\ OnInnerSide(c.ny, FarCorner(c.ny, b))
       /\ OnInnerSide(c.py, FarCorner(c.py, b))
       /\ OnInnerSide(c.nz, FarCorner(c.nz, b))
       /\ OnInnerSide(c.pz, FarCorner(c.pz, b))
    THEN IF OnInnerSide(c.pz, NearCorner(c.pz, b)) THEN "Inside" ELSE "Partial"
    ELSE "Outside"

TestBoundingBox(c, b) ==
    IF OnInnerSide(c.nx, FarCorner(c.nx, b)) THEN
      LET in1 == OnInnerSide(c.nx, NearCorner(c.nx, b)) IN
      IF OnInnerSide(c.px, FarCorner(c.px, b)) THEN
        LET in2 == in1 /\ OnInnerSide(c.px, NearCorner(c.px, b)) IN
        IF OnInnerSide(c.ny, FarCorner(c.ny, b)) THEN
          LET in3 == in2 /\ OnInnerSide(c.ny, NearCorner(c.ny, b)) IN
          IF OnInnerSide(c.py, FarCorner(c.py, b)) THEN
            LET in4 == in3 /\ OnInnerSide(c.py, NearCorner(c.py, b)) IN
            IF OnInnerSide(c.nz, FarCorner(c.nz, b)) THEN
              LET in5 == in4 /\ OnInnerSide(c.nz, NearCorner(c.nz, b)) IN
              IF OnInnerSide(c.pz, FarCorner(c.pz, b)) THEN
                LET in6 == in5 /\ OnInnerSide(c.pz, NearCorner(c.pz, b)) IN
                IF in6 THEN "Inside" ELSE "Partial"
              ELSE "Outside"
            ELSE "Outside"
          ELSE "Outside"
        ELSE "Outside"
      ELSE "Outside"
    ELSE "Outside"

\* the planes in the order the nested ifs of test_bounding_box take them up
PlaneOrder == <<"nx", "px", "ny", "py", "nz", "pz">>

\* (for comparison) a test that would evaluate both corners of a plane before looking at the first
RECURSIVE TestStepsEager(_, _, _)
TestStepsEager(c, b, i) ==
    IF i > Len(PlaneOrder) THEN <<>>
    ELSE LET p == c[PlaneOrder[i]]
             first == OnInnerSide(p, FarCorner(p, b))
             both == <<[plane |-> PlaneOrder[i], vertex |-> "positive", pass |-> first],
                       [plane |-> PlaneOrder[i], vertex |-> "negative",
                        pass |-> OnInnerSide(p, NearCorner(p, b))]>>
         IN  IF first THEN both \o TestStepsEager(c, b, i + 1) ELSE both

\* the comparisons test_bounding_box evaluates from plane i on, in order: the
\* condition of the plane's `if` (first corner), then, inside the `if`, the
\* right-hand side of `inside &=` (second corner; &= on bool always evaluates
\* it) and the next plane's `if`; a false condition falls through to the
\* final Outside.
RECURSIVE TestSteps(_, _, _)
TestSteps(c, b, i) ==
    IF i > Len(PlaneOrder) THEN <<>>
    ELSE LET p == c[PlaneOrder[i]]
         IN  IF OnInnerSide(p, FarCorner(p, b))
             THEN <<[plane |-> PlaneOrder[i], vertex |-> "positive", pass |-> TRUE],
                    [plane |-> PlaneOrder[i], vertex |-> "negative",
                     pass |-> OnInnerSide(p, NearCorner(p, b))]>>
                  \o TestSteps(c, b, i + 1)
             ELSE <<[plane |-> PlaneOrder[i], vertex |-> "positive", pass |-> FALSE]>>

\* ---- inputs of SpecCull
BoxCoords == -1 .. 1

Points == {<<x, y, z>> : x \in BoxCoords, y \in BoxCoords, z \in BoxCoords}

LeqV(a, b) == a[1] <= b[1] /\ a[2] <= b[2] /\ a[3] <= b[3]

\* Aabb::from_params with min <= max
Boxes == {b \in [min : Points, max : Points] : LeqV(b.min, b.max)}

\* the boxes inside b
PointsWithin(b) ==
    {<<x, y, z>> : x \in b.min[1] .. b.max[1], y \in b.min[2] .. b.max[2],
                   z \in b.min[3] .. b.max[3]}

BoxesWithin(b) ==
    {c \in [min : PointsWithin(b), max : PointsWithin(b)] : LeqV(c.min, c.max)}

\* eyes at the origin and at the far plane's distance from the boxes
EyeSamples == {<<0, 0, 0>>, <<-ZFar, 0, 0>>, <<1, -ZFar, 1>>}

CullerSamples ==
    {FromMatrix([position |-> e, yaw |-> y, pitch |-> p]) :
        e \in EyeSamples, y \in 0 .. 3, p \in {-1, 0, PitchLimit}}

InitCull ==
    /\ culler \in CullerSamples
    /\ aab \in Boxes
    /\ cullResult = None
    /\ cullPrevBox = aab
    /\ cullPrev = None
    /\ cullSteps = <<>>

IdleCull ==
    /\ culler = FromMatrix([position |-> <<0, 0, 0>>, yaw |-> 0, pitch |-> 0])
    /\ aab = [min |-> <<0, 0, 0>>, max |-> <<0, 0, 0>>]
    /\ cullResult = None
    /\ cullPrevBox = aab
    /\ cullPrev = None
    /\ cullSteps = <<>>

\* result = culler.test_bounding_box(&aab)
CallTestBoundingBox ==
    /\ cullResult = None
    /\ cullResult' = TestBoundingBox(culler, aab)
    /\ cullSteps' = TestSteps(culler, aab, 1)
    /\ UNCHANGED <<culler, aab, cullPrevBox, cullPrev, blockVars, appVars, interpVars, chunkVars, inputVars, projVars>>

\* the caller goes on to a box inside the one just tested
ShrinkBox ==
    /\ cullResult # None
    /\ \E b \in BoxesWithin(aab) : aab' = b
    /\ cullPrevBox' = aab
    /\ cullPrev' = cullResult
    /\ cullResult' = None
    /\ cullSteps' = <<>>
    /\ UNCHANGED <<culler, blockVars, appVars, interpVars, chunkVars, inputVars, projVars>>

NextCull == CallTestBoundingBox \/ ShrinkBox

(***************************************************************************)
(* command_buffer.rs: the three command sets                               *)
(***************************************************************************)
CreateModel(m) == [op |-> "CreateModel", model |-> m]

CreateActor(a) == [op |-> "CreateActor", actor |-> a]

RemoveModel(id) == [op |-> "RemoveModel", id |-> id]

RemoveActor(id) == [op |-> "RemoveActor", id |-> id]

MoveCamera(o) == [op |-> "MoveCamera", offset |-> o]

RotateCamera(y, p) == [op |-> "RotateCamera", yaw |-> y, pitch |-> p]

FovCamera(f) == [op |-> "FovCamera", fov |-> f]

UpdateBuffer(id, idx) == [op |-> "UpdateBuffer", id |-> id, idx |-> idx]

CreateBuffer(payload) == [op |-> "CreateBuffer", payload |-> payload]

CreateBindGroup(resources) == [op |-> "CreateBindGroup", resources |-> resources]

CreatePipeline(groups) == [op |-> "CreatePipeline", bind_groups |-> groups]

SharePipeline(id, idx) == [op |-> "SharePipeline", id |-> id, idx |-> idx]

SetPipeline(idx) == [op |-> "SetPipeline", idx |-> idx]

SetVertexBuffer(slot, idx) == [op |-> "SetVertexBuffer", slot |-> slot, idx |-> idx]

SetIndexBuffer(idx, format) == [op |-> "SetIndexBuffer", idx |-> idx, format |-> format]

SetBindGroup(slot, idx) == [op |-> "SetBindGroup", slot |-> slot, idx |-> idx]

DrawModelIndexed(idx, instances, groups) ==
    [op |-> "DrawModelIndexed", idx |-> idx, instances |-> instances, bind_groups |-> groups]

DrawIndexed(indices, instances) ==
    [op |-> "DrawIndexed", indices |-> indices, instances |-> instances]

(***************************************************************************)
(* The entities of the scene.  A Model is a trait object: its id, aabb,    *)
(* position and the setup / render buffers it returns.  Indices count from *)
(* 0 as in the source.                                                     *)
(***************************************************************************)
\* a chunk-like model that builds its own pipeline (chunks.rs Chunk::setup),
\* two units in front of the camera App::new places
ModelNear ==
    [id |-> 1, position |-> <<0, 5, 8>>,
     aabb |-> [min |-> <<0, 5, 8>>, max |-> <<1, 6, 9>>],
     setup |-> <<CreateBuffer("position"), CreateBuffer("blocks"),
                 CreateBindGroup(<<0>>), CreatePipeline(<<0>>)>>,
     render |-> <<SetPipeline(0), SetVertexBuffer(1, 1), DrawIndexed(6, 1)>>]

\* a model at the far plane's distance that borrows the first one's pipeline
ModelFar ==
    [id |-> 2, position |-> <<0, 5, 10 - ZFar>>,
     aabb |-> [min |-> <<0, 5, 10 - ZFar>>, max |-> <<1, 6, 11 - ZFar>>],
     setup |-> <<SharePipeline(1, 0)>>,
     render |-> <<SetPipeline(0), DrawIndexed(3, 1)>>]

ModelKinds == {ModelNear, ModelFar}

ModelIds == {1, 2}

\* NModel::new
NewNModel(m) == [model |-> m, pipelines |-> <<>>, buffers |-> <<>>, bind_groups |-> <<>>]

\* the ids of the actors: 1 behaves as a CameraController, 2 as an actor
\* that edits the scene
ActorIds == {1, 2}

MaxActors == 2

MaxModels == 2

\* the camera advances at most this far along z from where App::new places
\* it, and turns at most this many quarter turns from its first yaw
MaxEye == 1

MaxYaw == 1

(***************************************************************************)
(* camera.rs: the camera's mutators                                        *)
(***************************************************************************)
\* Camera::move_position
MovePosition(cam, offset) == [cam EXCEPT !.position = VAdd(cam.position, offset)]

\* Camera::add_yaw
AddYaw(cam, yaw) == [cam EXCEPT !.yaw = cam.yaw + yaw]

\* Camera::add_pitch
\* (for comparison) an add_pitch that would not clamp
AddPitchUnclamped(cam, pitch) == [cam EXCEPT !.pitch = cam.pitch + pitch]

AddPitch(cam, pitch) ==
    LET p == cam.pitch + pitch
    IN  [cam EXCEPT !.pitch = IF p < -PitchLimit THEN -PitchLimit
                              ELSE IF p > PitchLimit THEN PitchLimit ELSE p]

(***************************************************************************)
(* app.rs: the registries                                                  *)
(***************************************************************************)
\* the first of the indices (from 1) at which the search hits, or 0: the
\* loop breaks at the first hit
FirstIndex(hits) ==
    IF hits = {} THEN 0 ELSE CHOOSE i \in hits : \A j \in hits : i <= j

\* (for comparison) Vec::remove(idx), which would shift the later elements down
RemoveShifting(s, i) == SubSeq(s, 1, i - 1) \o SubSeq(s, i + 1, Len(s))

\* Vec::swap_remove(idx): the last element takes the place of the removed one
SwapRemove(s, i) ==
    LET n == Len(s)
    IN  IF i = n THEN SubSeq(s, 1, n - 1)
        ELSE [k \in 1 .. (n - 1) |-> IF k = i THEN s[n] ELSE s[k]]

\* ModelState::get_model: the first model with the id, as an index or 0
GetModel(ms, id) ==
    FirstIndex({i \in DOMAIN ms : ms[i].model.id = id})

\* the pipeline handles held by the models of a registry
LiveHandles(ms) == UNION {{ms[i].pipelines[k] : k \in DOMAIN ms[i].pipelines} : i \in DOMAIN ms}

\* Rc::new(pipeline): a handle no live pipeline has
FreshHandle(used) == CHOOSE h \in 1 .. (Cardinality(used) + 1) : h \notin used

\* App::parse_setup_command: the model after the command, or a panic
ParseSetupCommand(ms, nm, c) ==
    CASE c.op = "CreateBuffer" ->
           [ok |-> TRUE, nm |-> [nm EXCEPT !.buffers = Append(@, c.payload)]]
      [] c.op = "CreateBindGroup" ->
           IF \A k \in DOMAIN c.resources : c.resources[k] < Len(nm.buffers)
           THEN [ok |-> TRUE, nm |-> [nm EXCEPT !.bind_groups = Append(@, c.resources)]]
           ELSE [ok |-> FALSE, nm |-> nm]
      [] c.op = "CreatePipeline" ->
           IF \A k \in DOMAIN c.bind_groups : c.bind_groups[k] < Len(nm.bind_groups)
           THEN [ok |-> TRUE,
                 nm |-> [nm EXCEPT !.pipelines =
                            Append(@, FreshHandle(LiveHandles(ms) \cup
                                        {nm.pipelines[k] : k \in DOMAIN nm.pipelines}))]]
           ELSE [ok |-> FALSE, nm |-> nm]
      [] c.op = "SharePipeline" ->
           LET i == GetModel(ms, c.id)
           IN  IF i = 0 THEN [ok |-> TRUE, nm |-> nm]
               ELSE IF c.idx < Len(ms[i].pipelines)
                    THEN [ok |-> TRUE,
                          nm |-> [nm EXCEPT !.pipelines = Append(@, ms[i].pipelines[c.idx + 1])]]
                    ELSE [ok |-> FALSE, nm |-> nm]

\* for command in buffer.iter_command() { self.parse_setup_command(command, &mut model) }
RECURSIVE RunSetup(_, _, _)
RunSetup(ms, nm, cmds) ==
    IF cmds = <<>> THEN [ok |-> TRUE, nm |-> nm]
    ELSE LET r == ParseSetupCommand(ms, nm, Head(cmds))
         IN  IF r.ok THEN RunSetup(ms, r.nm, Tail(cmds)) ELSE r

\* App::parse_render_command: whether every index the command uses exists
RenderCommandOk(nm, c) ==
    CASE c.op = "SetPipeline" -> c.idx < Len(nm.pipelines)
      [] c.op = "SetVertexBuffer" -> c.idx < Len(nm.buffers)
      [] c.op = "SetIndexBuffer" -> c.idx < Len(nm.buffers)
      [] c.op = "SetBindGroup" -> c.idx < Len(nm.bind_groups)
      [] c.op = "DrawModelIndexed" ->
           /\ \A k \in DOMAIN c.bind_groups : c.bind_groups[k] < Len(nm.bind_groups)
           /\ c.idx < objModels
      [] OTHER -> TRUE

\* App::parse_render_command: the call the render pass receives
RenderCall(nm, c) ==
    CASE c.op = "SetPipeline" ->
           [call |-> "set_pipeline", args |-> <<nm.pipelines[c.idx + 1]>>]
      [] c.op = "SetVertexBuffer" ->
           [call |-> "set_vertex_buffer", args |-> <<c.slot, nm.buffers[c.idx + 1]>>]
      [] c.op = "SetIndexBuffer" ->
           [call |-> "set_index_buffer", args |-> <<nm.buffers[c.idx + 1], c.format>>]
      [] c.op = "SetBindGroup" ->
           [call |-> "set_bind_group", args |-> <<c.slot, nm.bind_groups[c.idx + 1]>>]
      [] c.op = "DrawIndexed" ->
           [call |-> "draw_indexed", args |-> <<c.indices, c.instances>>]
      [] c.op = "DrawModelIndexed" ->
           [call |-> "draw_model_instanced",
            args |-> <<c.idx, c.instances,
                       [k \in DOMAIN c.bind_groups |-> nm.bind_groups[c.bind_groups[k] + 1]]>>]

NoRenderCall == [call |-> None, args |-> <<>>]

\* (for comparison) an interpreter that would skip a command whose index
\* does not exist
ParseRenderCommandSkipping(nm, c) ==
    [ok |-> TRUE, call |-> IF RenderCommandOk(nm, c) THEN RenderCall(nm, c) ELSE NoRenderCall]

\* App::parse_render_command: the call made, or a panic
ParseRenderCommand(nm, c) ==
    IF RenderCommandOk(nm, c) THEN [ok |-> TRUE, call |-> RenderCall(nm, c)]
    ELSE [ok |-> FALSE, call |-> NoRenderCall]

\* history: one record for each command the setup loop took up
RECURSIVE SetupTrace(_, _, _)
SetupTrace(ms, nm, cmds) ==
    IF cmds = <<>> THEN <<>>
    ELSE LET r == ParseSetupCommand(ms, nm, Head(cmds))
         IN  <<[cmd |-> Head(cmds), before |-> nm, after |-> r.nm, ok |-> r.ok]>>
             \o (IF r.ok THEN SetupTrace(ms, r.nm, Tail(cmds)) ELSE <<>>)

\* Rc::new
RcNew(refs, h) == [k \in DOMAIN refs \cup {h} |-> IF k = h THEN 1 ELSE refs[k]]

\* Rc::clone
RcClone(refs, h) == [refs EXCEPT ![h] = @ + 1]

\* Drop for Rc: the pipeline is released with its last handle
\* (for comparison) a drop that would release the pipeline with any handle
RcDropReleases(refs, h) == [k \in DOMAIN refs \ {h} |-> refs[k]]

RcDrop(refs, h) ==
    IF refs[h] = 1 THEN [k \in DOMAIN refs \ {h} |-> refs[k]]
    ELSE [refs EXCEPT ![h] = @ - 1]

\* NModel::add_pipeline (Rc::new) and the clone() of the SharePipeline arm,
\* for each command of a setup loop
RECURSIVE RefsAfterSetup(_, _)
RefsAfterSetup(refs, trace) ==
    IF trace = <<>> THEN refs
    ELSE LET t == Head(trace)
             grown == Len(t.after.pipelines) > Len(t.before.pipelines)
             h == t.after.pipelines[Len(t.after.pipelines)]
         IN  RefsAfterSetup(
                 IF ~grown THEN refs
                 ELSE IF t.cmd.op = "CreatePipeline" THEN RcNew(refs, h)
                 ELSE RcClone(refs, h),
                 Tail(trace))

\* the Vec<Rc<RenderPipeline>> of a dropped NModel drops its handles
RECURSIVE DropPipelines(_, _)
DropPipelines(refs, pipelines) ==
    IF pipelines = <<>> THEN refs
    ELSE DropPipelines(RcDrop(refs, Head(pipelines)), Tail(pipelines))

(***************************************************************************)
(* app.rs: what an actor's update() may return                             *)
(***************************************************************************)
\* CameraController::update: always a MoveCamera followed by a RotateCamera,
\* computed from the keys, the mouse and the camera it reads
ControllerBuffers ==
    {<<MoveCamera(<<0, 0, 0>>), RotateCamera(0, 0)>>,
     <<MoveCamera(<<0, 0, -1>>), RotateCamera(0, 0)>>,
     <<MoveCamera(<<0, 0, 1>>), RotateCamera(1, 0)>>,
     <<MoveCamera(<<0, 0, 0>>), RotateCamera(-1, PitchLimit)>>,
     <<MoveCamera(<<0, 0, 0>>), RotateCamera(0, -(2 * PitchLimit + 1))>>}

\* an actor that edits the scene
DirectorBuffers ==
    {<<>>,
     <<CreateModel(ModelNear)>>,
     <<CreateModel(ModelFar), FovCamera(1)>>,
     <<RemoveModel(1), UpdateBuffer(1, 0)>>,
     <<RemoveModel(1)>>,
     <<RemoveModel(2), MoveCamera(<<0, 0, -1>>)>>,
     <<UpdateBuffer(1, 1), RemoveActor(1)>>,
     <<CreateActor(1)>>,
     <<RemoveActor(2), CreateActor(2)>>}

BuffersOf(id) == IF id = 1 THEN ControllerBuffers ELSE DirectorBuffers

\* how many commands with this op a buffer holds
CountOp(cmds, op) == Cardinality({k \in DOMAIN cmds : cmds[k].op = op})

RECURSIVE SumOver(_, _)
SumOver(f, n) == IF n = 0 THEN 0 ELSE f[n] + SumOver(f, n - 1)

\* the commands with this op in the buffers returned so far
Pending(bufs, op) ==
    SumOver([i \in DOMAIN bufs |-> IF bufs[i].returned THEN CountOp(bufs[i].cmds, op) ELSE 0],
            Len(bufs))

\* where the camera would stand after the camera commands returned so far
RECURSIVE Drift(_, _)
Drift(cmds, k) ==
    IF k = 0 THEN [z |-> 0, yaw |-> 0]
    ELSE LET d == Drift(cmds, k - 1)
         IN  CASE cmds[k].op = "MoveCamera" -> [d EXCEPT !.z = @ + cmds[k].offset[3]]
               [] cmds[k].op = "RotateCamera" -> [d EXCEPT !.yaw = @ + cmds[k].yaw]
               [] OTHER -> d

RECURSIVE Concat(_, _)
Concat(bufs, n) == IF n = 0 THEN <<>> ELSE Concat(bufs, n - 1) \o bufs[n].cmds

\* the bounds of the model: registries and camera stay within them whatever
\* the order the buffers are interpreted in
WithinBounds(bufs) ==
    LET all == Concat(bufs, Len(bufs))
    IN  /\ Len(models) + Pending(bufs, "CreateModel") <= MaxModels
        /\ Len(actors) + Pending(bufs, "CreateActor") <= MaxActors
        /\ \A k \in 0 .. Len(all) :
              LET e == Drift(all, k)
              IN  /\ InitCamera.position[3] - (camera.position[3] + e.z) \in 0 .. MaxEye
                  /\ (camera.yaw + e.yaw) - InitCamera.yaw \in 0 .. MaxYaw

(***************************************************************************)
(* app.rs: App::update                                                     *)
(***************************************************************************)
\* .collect::<Vec<CommandBuffer<NCommandUpdate>>>(): every update() returned
\* (for comparison) a loop that would start as soon as the first buffer is there
CollectDoneFirstOnly(bufs) == \A i \in DOMAIN bufs : i = 1 => bufs[i].returned

CollectDone(bufs) == \A i \in DOMAIN bufs : bufs[i].returned

\* .into_iter().for_each(|buffer| for command in buffer.iter_command()):
\* the <<buffer, command>> places in the order they are visited
\* (for comparison) a walk that would take the buffers last to first
RECURSIVE PlacesBackwards(_, _)
PlacesBackwards(bufs, n) ==
    IF n = 0 THEN <<>>
    ELSE [k \in 1 .. Len(bufs[n].cmds) |-> <<n, k>>] \o PlacesBackwards(bufs, n - 1)

RECURSIVE Places(_, _)
Places(bufs, n) ==
    IF n = 0 THEN <<>>
    ELSE Places(bufs, n - 1) \o [k \in 1 .. Len(bufs[n].cmds) |-> <<n, k>>]

\* Actor::update takes the input state and (CameraController) reads the
\* camera; it has no access to write it
\* (for comparison) an update() that would apply its own MoveCamera on the spot
ActorUpdateMovesCamera(cam, cmds) ==
    IF cmds # <<>> /\ cmds[1].op = "MoveCamera" THEN MovePosition(cam, cmds[1].offset) ELSE cam

ActorUpdateCamera(cam, cmds) == cam

\* App::parse_update_command
AppState(as, ms, cam, ok) == [actors |-> as, models |-> ms, camera |-> cam, ok |-> ok]

\* the RemoveModel arm: the first model with the id is looked for, and
\* removed if there is one
\* (for comparison) an arm that would unwrap the index it looked for
RemoveModelUnwrapped(as, ms, cam, id) ==
    LET i == GetModel(ms, id)
    IN  IF i = 0 THEN AppState(as, ms, cam, FALSE) ELSE AppState(as, SwapRemove(ms, i), cam, TRUE)

RemoveModelArm(as, ms, cam, id) ==
    LET i == GetModel(ms, id)
    IN  AppState(as, IF i = 0 THEN ms ELSE SwapRemove(ms, i), cam, TRUE)

\* the RemoveActor arm
\* (for comparison) an arm that would leave the actor registered
RemoveActorArmKeeps(as, ms, cam, id) == AppState(as, ms, cam, TRUE)

RemoveActorArm(as, ms, cam, id) ==
    LET i == FirstIndex({k \in DOMAIN as : as[k] = id})
    IN  AppState(IF i = 0 THEN as ELSE SwapRemove(as, i), ms, cam, TRUE)

\* the UpdateBuffer arm: get_model(&id).unwrap().update_buffer(&self.queue, idx)
\* (for comparison) an arm that would do nothing when no model has the id
UpdateBufferIfSome(as, ms, cam, id, idx) ==
    LET i == GetModel(ms, id)
    IN  AppState(as, ms, cam, \A k \in {i} \ {0} : idx < Len(ms[k].buffers))

UpdateBufferArm(as, ms, cam, id, idx) ==
    LET i == GetModel(ms, id)
    IN  AppState(as, ms, cam, i # 0 /\ \A k \in {i} \ {0} : idx < Len(ms[k].buffers))

\* the CreateModel arm: NModel::new, the setup loop, then the push
\* (for comparison) an arm that would push the model and leave its setup
\* buffer uninterpreted
CreateModelPushOnly(as, ms, cam, m) == AppState(as, Append(ms, NewNModel(m)), cam, TRUE)

CreateModelArm(as, ms, cam, m) ==
    LET r == RunSetup(ms, NewNModel(m), m.setup)
    IN  IF r.ok THEN AppState(as, Append(ms, r.nm), cam, TRUE)
        ELSE AppState(as, ms, cam, FALSE)

ParseUpdateCommand(as, ms, cam, c) ==
    CASE c.op = "CreateModel" -> CreateModelArm(as, ms, cam, c.model)
      [] c.op = "CreateActor" -> AppState(Append(as, c.actor), ms, cam, TRUE)
      [] c.op = "RemoveModel" -> RemoveModelArm(as, ms, cam, c.id)
      [] c.op = "RemoveActor" -> RemoveActorArm(as, ms, cam, c.id)
      [] c.op = "MoveCamera" -> AppState(as, ms, MovePosition(cam, c.offset), TRUE)
      [] c.op = "RotateCamera" -> AppState(as, ms, AddPitch(AddYaw(cam, c.yaw), c.pitch), TRUE)
      [] c.op = "FovCamera" -> AppState(as, ms, cam, TRUE)
      [] c.op = "UpdateBuffer" -> UpdateBufferArm(as, ms, cam, c.id, c.idx)

\* the handles parse_update_command creates, clones and drops
RefsAfterUpdate(refs, ms, c) ==
    CASE c.op = "CreateModel" ->
           RefsAfterSetup(refs, SetupTrace(ms, NewNModel(c.model), c.model.setup))
      [] c.op = "RemoveModel" ->
           LET i == GetModel(ms, c.id)
           IN  IF i = 0 THEN refs ELSE DropPipelines(refs, ms[i].pipelines)
      [] OTHER -> refs

\* CameraUniform::update_view_proj, called once the loop over the buffers ended
\* (for comparison) a matrix that would be stored from the camera the frame began with
UpdateViewProjBeforeLoop(cam) == ViewProj(camStart)

UpdateViewProj(cam) == ViewProj(cam)

\* the next place to interpret, if any is left
PlacesLeft == Len(appliedLog) < Len(Places(buffers, Len(buffers)))

NextPlace == Places(buffers, Len(buffers))[Len(appliedLog) + 1]

NextCommand == buffers[NextPlace[1]].cmds[NextPlace[2]]

\* App::update is entered: the parallel map over the actors starts
UpdateBegin ==
    /\ pc = "idle" /\ ~aborted
    /\ pc' = "update"
    /\ buffers' = [i \in 1 .. Len(actors) |-> [by |-> actors[i], returned |-> FALSE, cmds |-> <<>>]]
    /\ appliedLog' = <<>>
    /\ frameActors' = actors
    /\ frameModels' = models
    /\ camStart' = camera
    /\ unapplied' = 0
    /\ UNCHANGED <<aborted, actors, models, camera, viewProj, culling, camPosition,
                   drawList, drawLog,
                   resVars, blockVars, cullVars, interpVars, chunkVars, inputVars, projVars>>

\* one actor's update() runs (in any order, on any thread) and returns
ActorUpdate ==
    /\ pc = "update" /\ ~aborted
    /\ \E i \in DOMAIN buffers :
          /\ ~buffers[i].returned
          /\ \E b \in BuffersOf(buffers[i].by) :
                /\ buffers' = [buffers EXCEPT ![i] = [@ EXCEPT !.returned = TRUE, !.cmds = b]]
                /\ camera' = ActorUpdateCamera(camera, b)
          /\ WithinBounds(buffers')
    /\ UNCHANGED <<pc, aborted, actors, models, viewProj, appliedLog, culling, camPosition,
                   drawList, drawLog, frameActors, frameModels, camStart, unapplied,
                   resVars, blockVars, cullVars, interpVars, chunkVars, inputVars, projVars>>

\* self.parse_update_command(command) for the next command of the loop
InterpretUpdateCommand ==
    /\ pc = "update" /\ ~aborted
    /\ CollectDone(buffers)
    /\ PlacesLeft
    /\ LET r == ParseUpdateCommand(actors, models, camera, NextCommand)
       IN  /\ actors' = r.actors
           /\ models' = r.models
           /\ camera' = r.camera
           /\ aborted' = ~r.ok
    /\ setupTrace' = IF NextCommand.op = "CreateModel"
                     THEN SetupTrace(models, NewNModel(NextCommand.model),
                                     NextCommand.model.setup)
                     ELSE setupTrace
    /\ pipelineRefs' = RefsAfterUpdate(pipelineRefs, models, NextCommand)
    /\ appliedLog' = Append(appliedLog, NextPlace)
    /\ UNCHANGED <<pc, viewProj, buffers, culling, camPosition, drawList, drawLog,
                   frameActors, frameModels, camStart, unapplied, objModels,
                   blockVars, cullVars, interpVars, chunkVars, inputVars, projVars>>

\* the rest of App::update: the view-projection matrix is stored
UpdateFinish ==
    /\ pc = "update" /\ ~aborted
    /\ CollectDone(buffers)
    /\ ~PlacesLeft
    /\ viewProj' = UpdateViewProj(camera)
    /\ unapplied' = Len(Places(buffers, Len(buffers))) - Len(appliedLog)
    /\ pc' = "render"
    /\ buffers' = <<>>
    /\ appliedLog' = <<>>
    /\ UNCHANGED <<aborted, actors, models, camera, culling, camPosition, drawList, drawLog,
                   frameActors, frameModels, camStart,
                   resVars, blockVars, cullVars, interpVars, chunkVars, inputVars, projVars>>

(***************************************************************************)
(* app.rs: App::render                                                     *)
(***************************************************************************)
DistanceSquared(a, b) == Dot(VSub(a, b), VSub(a, b))

\* the culling test as the boolean the first filter of App::render takes:
\* visible unless the box is Outside
IsVisible(c, b) == TestBoundingBox(c, b) # "Outside"

\* the two filters of App::render
\* (for comparison) a distance filter that would let the far distance itself through
PassesFiltersInclusive(c, eye, nm) ==
    /\ IsVisible(c, nm.model.aabb)
    /\ DistanceSquared(nm.model.position, eye) <= ZFar * ZFar

PassesFilters(c, eye, nm) ==
    /\ IsVisible(c, nm.model.aabb)
    /\ DistanceSquared(nm.model.position, eye) < ZFar * ZFar

\* .filter(..).filter(..).map(|model| (model, model.render())).collect()
\* (for comparison) a collection that would hand the models over last first
RECURSIVE CollectReversed(_, _, _, _)
CollectReversed(ms, c, eye, n) ==
    IF n = 0 THEN <<>>
    ELSE (IF PassesFilters(c, eye, ms[n])
          THEN <<[model |-> n, cmds |-> ms[n].model.render]>> ELSE <<>>)
         \o CollectReversed(ms, c, eye, n - 1)

RECURSIVE Collect(_, _, _, _)
Collect(ms, c, eye, n) ==
    IF n = 0 THEN <<>>
    ELSE Collect(ms, c, eye, n - 1)
         \o (IF PassesFilters(c, eye, ms[n])
             THEN <<[model |-> n, cmds |-> ms[n].model.render]>> ELSE <<>>)

\* App::render's locals `culling` and `cam_position` do not exist outside a
\* call of render: they hold these values then
NoCuller == FromMatrix(ViewProj(InitCamera))

NoPosition == InitCamera.position

RenderPlacesLeft == Len(drawLog) < Len(Places(drawList, Len(drawList)))

NextRenderPlace == Places(drawList, Len(drawList))[Len(drawLog) + 1]

\* get_current_texture fails: render returns the error, the loop goes on
RenderSurfaceError ==
    /\ pc = "render" /\ ~aborted
    /\ pc' = "idle"
    /\ frameActors' = actors
    /\ frameModels' = models
    /\ camStart' = camera
    /\ UNCHANGED <<aborted, actors, models, camera, viewProj, buffers, appliedLog, culling,
                   camPosition, drawList, drawLog, unapplied,
                   resVars, blockVars, cullVars, interpVars, chunkVars, inputVars, projVars>>

\* the culler is built, cam_position read, the models filtered and their
\* render() buffers collected
RenderCollect ==
    /\ pc = "render" /\ ~aborted
    /\ culling' = FromMatrix(viewProj)
    /\ camPosition' = camera.position
    /\ drawList' = Collect(models, culling', camPosition', Len(models))
    /\ drawLog' = <<>>
    /\ pc' = "draw"
    /\ UNCHANGED <<aborted, actors, models, camera, viewProj, buffers, appliedLog,
                   frameActors, frameModels, camStart, unapplied,
                   resVars, blockVars, cullVars, interpVars, chunkVars, inputVars, projVars>>

\* self.parse_render_command(command, model, &mut render_pass)
InterpretRenderCommand ==
    /\ pc = "draw" /\ ~aborted
    /\ RenderPlacesLeft
    /\ LET e == drawList[NextRenderPlace[1]]
           c == e.cmds[NextRenderPlace[2]]
       IN  /\ drawLog' = Append(drawLog, [model |-> e.model, place |-> NextRenderPlace, cmd |-> c])
           /\ aborted' = ~RenderCommandOk(models[e.model], c)
    /\ UNCHANGED <<pc, actors, models, camera, viewProj, buffers, appliedLog, culling,
                   camPosition, drawList, frameActors, frameModels, camStart, unapplied,
                   resVars, blockVars, cullVars, interpVars, chunkVars, inputVars, projVars>>

\* the pass is submitted and presented
RenderEnd ==
    /\ pc = "draw" /\ ~aborted
    /\ ~RenderPlacesLeft
    /\ pc' = "idle"
    /\ drawList' = <<>>
    /\ drawLog' = <<>>
    /\ frameActors' = actors
    /\ frameModels' = models
    /\ camStart' = camera
    /\ culling' = NoCuller
    /\ camPosition' = NoPosition
    /\ UNCHANGED <<aborted, actors, models, camera, viewProj, buffers, appliedLog, unapplied,
                   resVars, blockVars, cullVars, interpVars, chunkVars, inputVars, projVars>>

(***************************************************************************)
(* app.rs: the registration calls made between frames                      *)
(***************************************************************************)
\* App::add_model
AddModel ==
    /\ pc = "idle" /\ ~aborted
    /\ Len(models) < MaxModels
    /\ \E m \in ModelKinds :
          LET r == RunSetup(models, NewNModel(m), m.setup)
          IN  /\ models' = IF r.ok THEN Append(models, r.nm) ELSE models
              /\ aborted' = ~r.ok
              /\ setupTrace' = SetupTrace(models, NewNModel(m), m.setup)
              /\ pipelineRefs' = RefsAfterSetup(pipelineRefs, setupTrace')
    /\ frameModels' = models'
    /\ UNCHANGED <<pc, actors, camera, viewProj, buffers, appliedLog, culling, camPosition,
                   drawList, drawLog, frameActors, camStart, unapplied, objModels,
                   blockVars, cullVars, interpVars, chunkVars, inputVars, projVars>>

\* App::add_actor
AddActor ==
    /\ pc = "idle" /\ ~aborted
    /\ Len(actors) < MaxActors
    /\ \E a \in ActorIds :
          /\ actors' = Append(actors, a)
          /\ frameActors' = actors'
    /\ UNCHANGED <<pc, aborted, models, camera, viewProj, buffers, appliedLog, culling,
                   camPosition, drawList, drawLog, frameModels, camStart, unapplied,
                   resVars, blockVars, cullVars, interpVars, chunkVars, inputVars, projVars>>

(***************************************************************************)
(* app.rs: the command interpreters, called one command at a time on every *)
(* shape of resource table                                                 *)
(***************************************************************************)
\* a model whose buffers are given command by command
ModelStub(id) ==
    [id |-> id, position |-> <<0, 5, 8>>,
     aabb |-> [min |-> <<0, 5, 8>>, max |-> <<1, 6, 9>>],
     setup |-> <<>>, render |-> <<>>]

\* a model's resource table holds at most this many resources, and
\* register_model loads at most this many meshes
MaxResources == 2

MaxObjModels == 1

\* the registry the interpreters are called on holds at most this many models
MaxRegistered == 1

ResourceCount(nm) == Len(nm.pipelines) + Len(nm.buffers) + Len(nm.bind_groups)

SetupSamples ==
    {CreateBuffer("a"), CreateBuffer("b")}
        \cup {CreateBindGroup(<<i>>) : i \in 0 .. 1}
        \cup {CreatePipeline(g) : g \in {<<>>, <<0>>, <<1>>}}
        \cup {SharePipeline(id, i) : id \in ModelIds, i \in 0 .. MaxResources}

UpdateSamples ==
    {UpdateBuffer(id, i) : id \in ModelIds, i \in 0 .. MaxResources}
        \cup {RemoveModel(id) : id \in ModelIds}

RenderSamples ==
    {SetPipeline(i) : i \in 0 .. MaxResources}
        \cup {SetVertexBuffer(1, i) : i \in 0 .. MaxResources}
        \cup {SetIndexBuffer(i, "Uint32") : i \in 0 .. MaxResources}
        \cup {SetBindGroup(1, i) : i \in 0 .. MaxResources}
        \cup {DrawIndexed(6, 1)}
        \cup {DrawModelIndexed(i, 1, g) : i \in 0 .. MaxObjModels, g \in {<<>>, <<0>>, <<1>>}}

\* history records: the command, the NModel it was given (for an update
\* command, the index in the registry of the model it names, or 0), the
\* registry before the call, and the call the render pass received
NoCall == [phase |-> None, cmd |-> None, nm |-> None, ms |-> <<>>, call |-> NoRenderCall]

InitInterp ==
    /\ nModel \in {NewNModel(ModelStub(id)) : id \in ModelIds}
    /\ lastCall = NoCall

\* the state of these variables in the specifications that run whole handlers
IdleInterp ==
    /\ nModel = None
    /\ lastCall = NoCall

\* self.parse_setup_command(command, &mut model)
CallParseSetupCommand ==
    /\ ~aborted
    /\ ResourceCount(nModel) < MaxResources
    /\ \E c \in SetupSamples :
          LET r == ParseSetupCommand(models, nModel, c)
          IN  /\ nModel' = r.nm
              /\ aborted' = ~r.ok
              /\ pipelineRefs' =
                     RefsAfterSetup(pipelineRefs,
                         <<[cmd |-> c, before |-> nModel, after |-> r.nm, ok |-> r.ok]>>)
              /\ lastCall' = [phase |-> "setup", cmd |-> c, nm |-> nModel, ms |-> models,
                              call |-> NoRenderCall]
    /\ UNCHANGED <<pc, actors, models, camera, viewProj, buffers, appliedLog, culling,
                   camPosition, drawList, drawLog, frameActors, frameModels, camStart,
                   unapplied, objModels, setupTrace, blockVars, cullVars, chunkVars, inputVars, projVars>>

\* self.models.borrow_mut().push(model), and the next model to set up
PushModel ==
    /\ ~aborted
    /\ Len(models) < MaxRegistered
    /\ models' = Append(models, nModel)
    /\ \E id \in ModelIds : nModel' = NewNModel(ModelStub(id))
    /\ lastCall' = NoCall
    /\ UNCHANGED <<pc, aborted, actors, camera, viewProj, buffers, appliedLog, culling,
                   camPosition, drawList, drawLog, frameActors, frameModels, camStart,
                   unapplied, resVars, blockVars, cullVars, chunkVars, inputVars, projVars>>

\* self.parse_update_command(command)
CallParseUpdateCommand ==
    /\ ~aborted
    /\ \E c \in UpdateSamples :
          LET r == ParseUpdateCommand(actors, models, camera, c)
              i == GetModel(models, c.id)
          IN  /\ models' = r.models
              /\ aborted' = ~r.ok
              /\ pipelineRefs' = RefsAfterUpdate(pipelineRefs, models, c)
              /\ lastCall' = [phase |-> "update", cmd |-> c, nm |-> i, ms |-> models,
                              call |-> NoRenderCall]
    /\ UNCHANGED <<pc, actors, camera, viewProj, buffers, appliedLog, culling,
                   camPosition, drawList, drawLog, frameActors, frameModels, camStart,
                   unapplied, objModels, setupTrace, nModel, blockVars, cullVars, chunkVars, inputVars, projVars>>

\* self.parse_render_command(command, model, &mut render_pass)
CallParseRenderCommand ==
    /\ ~aborted
    /\ \E i \in DOMAIN models, c \in RenderSamples :
          LET r == ParseRenderCommand(models[i], c)
          IN  /\ aborted' = ~r.ok
              /\ lastCall' = [phase |-> "render", cmd |-> c, nm |-> models[i], ms |-> models,
                              call |-> r.call]
    /\ UNCHANGED <<pc, actors, models, camera, viewProj, buffers, appliedLog, culling,
                   camPosition, drawList, drawLog, frameActors, frameModels, camStart,
                   unapplied, resVars, nModel, blockVars, cullVars, chunkVars, inputVars, projVars>>

\* App::register_model: load_model(..).unwrap() is pushed
RegisterModel ==
    /\ ~aborted
    /\ objModels < MaxObjModels
    /\ \E loaded \in BOOLEAN :
          /\ objModels' = IF loaded THEN objModels + 1 ELSE objModels
          /\ aborted' = ~loaded
    /\ lastCall' = NoCall
    /\ UNCHANGED <<pc, actors, models, camera, viewProj, buffers, appliedLog, culling,
                   camPosition, drawList, drawLog, frameActors, frameModels, camStart,
                   unapplied, setupTrace, pipelineRefs, nModel, blockVars, cullVars, chunkVars, inputVars, projVars>>

NextInterp ==
    \/ CallParseSetupCommand
    \/ PushModel
    \/ CallParseUpdateCommand
    \/ CallParseRenderCommand
    \/ RegisterModel

(***************************************************************************)
(* app.rs: the two registries, filled through add_actor and add_model and  *)
(* emptied through the RemoveActor and RemoveModel commands                *)
(***************************************************************************)
\* a registry holds at most this many entries
MaxEntries == 3

\* models after their setup: two with the same id that differ in the buffer
\* they created, and one with the other id
EntrySamples ==
    {[NewNModel(ModelStub(1)) EXCEPT !.buffers = <<"a">>],
     [NewNModel(ModelStub(1)) EXCEPT !.buffers = <<"b">>],
     [NewNModel(ModelStub(2)) EXCEPT !.buffers = <<"a">>]}

RemoveSamples ==
    {RemoveModel(id) : id \in ModelIds} \cup {RemoveActor(id) : id \in ActorIds}

\* app.add_actor(actor)
CallAddActor ==
    /\ Len(actors) < MaxEntries
    /\ \E id \in ActorIds : actors' = Append(actors, id)
    /\ lastCall' = NoCall
    /\ UNCHANGED <<pc, aborted, models, camera, viewProj, buffers, appliedLog, culling,
                   camPosition, drawList, drawLog, frameActors, frameModels, camStart,
                   unapplied, resVars, nModel, blockVars, cullVars, chunkVars, inputVars, projVars>>

\* app.add_model(model), the model's setup buffer interpreted
CallAddModel ==
    /\ Len(models) < MaxEntries
    /\ \E nm \in EntrySamples : models' = Append(models, nm)
    /\ lastCall' = NoCall
    /\ UNCHANGED <<pc, aborted, actors, camera, viewProj, buffers, appliedLog, culling,
                   camPosition, drawList, drawLog, frameActors, frameModels, camStart,
                   unapplied, resVars, nModel, blockVars, cullVars, chunkVars, inputVars, projVars>>

\* self.parse_update_command(command) for RemoveModel(id) and RemoveActor(id)
CallRemoveCommand ==
    /\ \E c \in RemoveSamples :
          LET r == ParseUpdateCommand(actors, models, camera, c)
          IN  /\ actors' = r.actors
              /\ models' = r.models
              /\ camera' = r.camera
              /\ aborted' = ~r.ok
              /\ pipelineRefs' = RefsAfterUpdate(pipelineRefs, models, c)
              /\ lastCall' = [phase |-> "update", cmd |-> c, nm |-> GetModel(models, c.id),
                              ms |-> models, call |-> NoRenderCall]
    /\ UNCHANGED <<pc, viewProj, buffers, appliedLog, culling, camPosition, drawList,
                   drawLog, frameActors, frameModels, camStart, unapplied, objModels,
                   setupTrace, nModel, blockVars, cullVars, chunkVars, inputVars, projVars>>

NextRegistry == CallAddActor \/ CallAddModel \/ CallRemoveCommand

(***************************************************************************)
(* chunks.rs: Chunk                                                        *)
(***************************************************************************)
\* a u32 in memory, as bytemuck::cast_slice hands it over: four bytes,
\* least significant first
BytesOfU32(b) ==
    [k \in 1 .. 4 |->
        b[8 * k - 7] + 2 * b[8 * k - 6] + 4 * b[8 * k - 5] + 8 * b[8 * k - 4]
            + 16 * b[8 * k - 3] + 32 * b[8 * k - 2] + 64 * b[8 * k - 1] + 128 * b[8 * k]]

\* the u32 a reader of the four bytes s[at + 1 .. at + 4] sees
U32OfBytes(s, at) ==
    [i \in 1 .. Width |-> (s[at + ((i - 1) \div 8) + 1] \div (2 ^ ((i - 1) % 8))) % 2]

\* NVec is #[repr(C)] { x, y, z, _padding }
BytesOfNVec(p) ==
    BytesOfU32(ToU32(p[1])) \o BytesOfU32(ToU32(p[2])) \o BytesOfU32(ToU32(p[3]))
        \o BytesOfU32(ToU32(0))

\* for b in bytemuck::cast_slice(&self.blocks) { data.push(*b) }
RECURSIVE BytesOfBlocks(_)
BytesOfBlocks(blocks) ==
    IF blocks = <<>> THEN <<>>
    ELSE BytesOfU32(Head(blocks)) \o BytesOfBlocks(Tail(blocks))

\* Chunk::new
ChunkNew(id, position) ==
    [id |-> id, position |-> position,
     aabb |-> [min |-> position,
               max |-> <<position[1] + 8, position[2] + 8, position[3] + 8>>],
     blocks |-> <<>>, block_data |-> <<>>]

\* Chunk::add_block_data
AddBlockData(ch, p, id) ==
    [ch EXCEPT !.blocks = Append(@, WithId(WithPosition(ToU32(0), p), id))]

\* Chunk::add_block
AddBlock(ch, block) == [ch EXCEPT !.blocks = Append(@, block)]

\* Chunk::exists_block
ExistsBlock(ch, p) == \E i \in DOMAIN ch.blocks : BlockPosition(ch.blocks[i]) = p

\* Chunk::remove_block: idx is overwritten at every match, so the last
\* match is the one swap_remove takes out
RemoveBlock(ch, p) ==
    LET hits == {i \in DOMAIN ch.blocks : BlockPosition(ch.blocks[i]) = p}
    IN  IF hits = {} THEN ch
        ELSE [ch EXCEPT !.blocks = SwapRemove(@, CHOOSE i \in hits : \A j \in hits : j <= i)]

\* Chunk::setup
\* (for comparison) a setup that would not clear block_data before it
\* pushes the bytes of the blocks
ChunkSetupNoClear(ch) ==
    LET data == ch.block_data \o BytesOfBlocks(ch.blocks)
    IN  [chunk |-> [ch EXCEPT !.block_data = data],
         commands |-> <<CreateBuffer(BytesOfNVec(ch.position)), CreateBuffer(data),
                        CreateBindGroup(<<0>>), CreatePipeline(<<0>>)>>]

ChunkSetup(ch) ==
    LET data == BytesOfBlocks(ch.blocks)
    IN  [chunk |-> [ch EXCEPT !.block_data = data],
         commands |-> <<CreateBuffer(BytesOfNVec(ch.position)), CreateBuffer(data),
                        CreateBindGroup(<<0>>), CreatePipeline(<<0>>)>>]

\* the edge of a chunk: the number of values a packed coordinate takes
ChunkEdge == 2 ^ PosBits

\* shaders/chunk_instance.wgsl: the instance drawn for one record of the
\* block buffer, given the chunk position of the uniform buffer
ShaderInstance(uniform, data) ==
    LET origin == <<ToNat(U32OfBytes(uniform, 0)), ToNat(U32OfBytes(uniform, 4)),
                    ToNat(U32OfBytes(uniform, 8))>>
        local  == BlockPosition(data)
    IN  [position |-> <<origin[1] * ChunkEdge + local[1], origin[2] * ChunkEdge + local[2],
                        origin[3] * ChunkEdge + local[3]>>,
         id |-> BlockId(data)]

\* ---- inputs of SpecChunk
MaxOrigin == 1

MaxBlocks == 2

Origins == {<<x, y, z>> : x \in 0 .. MaxOrigin, y \in 0 .. MaxOrigin, z \in 0 .. MaxOrigin}

\* local positions, the last one wider than the field
BlockSamples == {<<0, 0, 0>>, <<1, 2, 3>>, <<7, 7, 7>>, <<8, 0, 0>>}

NoSetup == <<>>

InitChunk ==
    /\ chunk \in {ChunkNew(1, o) : o \in Origins}
    /\ chunkAdded = <<>>
    /\ chunkSetup = NoSetup
    /\ chunkRender = <<>>
    /\ chunkCall = None
    /\ chunkArg = <<>>

\* the state of the Chunk variables in the specifications that hold no Chunk
IdleChunk ==
    /\ chunk = None
    /\ chunkAdded = <<>>
    /\ chunkSetup = NoSetup
    /\ chunkRender = <<>>
    /\ chunkCall = None
    /\ chunkArg = <<>>

\* chunk.add_block_data(p, id)
CallAddBlockData ==
    /\ ~aborted
    /\ Len(chunk.blocks) < MaxBlocks
    /\ \E p \in BlockSamples, id \in {0, 7, 65535} :
          /\ chunk' = AddBlockData(chunk, p, id)
          /\ chunkAdded' = Append(chunkAdded, <<p, id>>)
    /\ chunkCall' = "add_block_data"
    /\ UNCHANGED <<chunkArg, chunkSetup, chunkRender, appVars, blockVars, cullVars, interpVars, inputVars, projVars>>

\* chunk.setup()
CallChunkSetup ==
    /\ ~aborted
    /\ chunk' = ChunkSetup(chunk).chunk
    /\ chunkSetup' = ChunkSetup(chunk).commands
    /\ chunkCall' = "setup"
    /\ UNCHANGED <<chunkArg, chunkAdded, chunkRender, appVars, blockVars, cullVars, interpVars, inputVars, projVars>>

\* chunk.render(): todo!() panics
CallChunkRender ==
    /\ ~aborted
    /\ aborted' = TRUE
    /\ chunkCall' = "render"
    /\ UNCHANGED <<chunk, chunkArg, chunkAdded, chunkSetup, chunkRender,
                   pc, actors, models, camera, viewProj, buffers, appliedLog, culling,
                   camPosition, drawList, drawLog, frameActors, frameModels, camStart,
                   unapplied, resVars, blockVars, cullVars, interpVars, inputVars, projVars>>

NextChunk == CallAddBlockData \/ CallChunkSetup \/ CallChunkRender

\* ---- the block list of a Chunk edited: add_block and remove_block
\* the blocks add_block is handed: built as add_block_data builds them
AddedBlocks ==
    {WithId(WithPosition(ToU32(0), p), id) : p \in BlockSamples, id \in {0, 7}}

\* chunk.add_block(block)
CallAddBlock ==
    /\ Len(chunk.blocks) < MaxBlocks
    /\ \E b \in AddedBlocks : chunk' = AddBlock(chunk, b)
    /\ chunkCall' = "add_block"
    /\ chunkArg' = <<>>
    /\ UNCHANGED <<chunkAdded, chunkSetup, chunkRender, appVars, blockVars, cullVars,
                   interpVars, inputVars, projVars>>

\* chunk.remove_block(p)
CallRemoveBlock ==
    /\ \E p \in BlockSamples :
          /\ chunk' = RemoveBlock(chunk, p)
          /\ chunkArg' = p
    /\ chunkCall' = "remove_block"
    /\ UNCHANGED <<chunkAdded, chunkSetup, chunkRender, appVars, blockVars, cullVars,
                   interpVars, inputVars, projVars>>

NextBlocks == CallAddBlock \/ CallRemoveBlock

(***************************************************************************)
(* input.rs: InputState, the cursor part (keys and scroll are left out).   *)
(* Cursor positions are integer pairs; the quotient mouse_delta() returns  *)
(* is kept as numerator and denominator.                                   *)
(***************************************************************************)
\* InputState::input, the CursorMoved arm
CursorMoved(st, pos) ==
    [mouse_delta |-> <<pos[1] - st.last_mouse_position[1], pos[2] - st.last_mouse_position[2]>>,
     last_mouse_position |-> pos,
     mouse_sample |-> st.mouse_sample + 1]

\* InputState::update
InputUpdate(st) == [st EXCEPT !.mouse_delta = <<0, 0>>, !.mouse_sample = 0]

\* InputState::mouse_delta
MouseDelta(st) ==
    IF st.mouse_sample > 0
    THEN [num |-> st.mouse_delta, den |-> st.mouse_sample]
    ELSE [num |-> <<0, 0>>, den |-> 1]

\* ---- inputs of SpecInput
\* cursor coordinates
MaxCursor == 2

\* CursorMoved events between two frames
MaxEvents == 3

\* the actors of the frame
InputActors == 2

CursorSamples == {<<x, y>> : x \in 0 .. MaxCursor, y \in 0 .. MaxCursor}

\* InputState::new, as App::new calls it
InitInput ==
    /\ inputState = [mouse_delta |-> <<0, 0>>, last_mouse_position |-> <<0, 0>>,
                     mouse_sample |-> 0]
    /\ inputSum = <<0, 0>>
    /\ inputReads = <<>>

\* app.input(event) with a CursorMoved event, between two frames
CallInput ==
    /\ inputReads = <<>>
    /\ inputState.mouse_sample < MaxEvents
    /\ \E pos \in CursorSamples :
          /\ inputState' = CursorMoved(inputState, pos)
          /\ inputSum' = <<inputSum[1] + pos[1] - inputState.last_mouse_position[1],
                           inputSum[2] + pos[2] - inputState.last_mouse_position[2]>>
    /\ UNCHANGED <<inputReads, blockVars, cullVars, appVars, interpVars, chunkVars, projVars>>

\* App::update: actor.update(&dt, &self.input_state), the actor reading
\* inputs.mouse_delta()
ActorReadsInput ==
    /\ Len(inputReads) < InputActors
    /\ inputReads' = Append(inputReads, MouseDelta(inputState))
    /\ UNCHANGED <<inputState, inputSum, blockVars, cullVars, appVars, interpVars, chunkVars, projVars>>

\* App::update: self.input_state.update() once every actor was updated
FrameInputUpdate ==
    /\ Len(inputReads) = InputActors
    /\ inputState' = InputUpdate(inputState)
    /\ inputSum' = <<0, 0>>
    /\ inputReads' = <<>>
    /\ UNCHANGED <<blockVars, cullVars, appVars, interpVars, chunkVars, projVars>>

NextInput == CallInput \/ ActorReadsInput \/ FrameInputUpdate

\* the fov_y App::new passes to Projection::new, 0.78 rad
FovY == 78

\* App::new
InitApp ==
    /\ pc = "idle"
    /\ projection = [fov_y |-> FovY, z_far |-> ZFar]
    /\ aborted = FALSE
    /\ actors = <<>>
    /\ models = <<>>
    /\ camera = InitCamera
    /\ viewProj = ViewProj(InitCamera)
    /\ buffers = <<>>
    /\ appliedLog = <<>>
    /\ culling = NoCuller
    /\ camPosition = NoPosition
    /\ drawList = <<>>
    /\ drawLog = <<>>
    /\ frameActors = <<>>
    /\ frameModels = <<>>
    /\ camStart = InitCamera
    /\ unapplied = 0
    /\ objModels = 0
    /\ setupTrace = <<>>
    /\ pipelineRefs = <<>>

NextApp ==
    \/ AddModel
    \/ AddActor
    \/ UpdateBegin
    \/ ActorUpdate
    \/ InterpretUpdateCommand
    \/ UpdateFinish
    \/ RenderSurfaceError
    \/ RenderCollect
    \/ InterpretRenderCommand
    \/ RenderEnd

InitSpecBlock == InitBlock /\ IdleCull /\ InitApp /\ IdleInterp /\ IdleChunk /\ InitInput

InitSpecCull == InitCull /\ IdleBlock /\ InitApp /\ IdleInterp /\ IdleChunk /\ InitInput

Init == InitApp /\ IdleBlock /\ IdleCull /\ IdleInterp /\ IdleChunk /\ InitInput

InitSpecInterp == InitInterp /\ InitApp /\ IdleBlock /\ IdleCull /\ IdleChunk /\ InitInput

InitSpecChunk == InitChunk /\ InitApp /\ IdleBlock /\ IdleCull /\ IdleInterp /\ InitInput

InitSpecRegistry == InitApp /\ IdleInterp /\ IdleBlock /\ IdleCull /\ IdleChunk /\ InitInput

SpecRegistry == InitSpecRegistry /\ [][NextRegistry]_vars

InitSpecInput == InitInput /\ InitApp /\ IdleInterp /\ IdleBlock /\ IdleCull /\ IdleChunk

SpecInput == InitSpecInput /\ [][NextInput]_vars

InitSpecBlocks == InitChunk /\ InitApp /\ IdleBlock /\ IdleCull /\ IdleInterp /\ InitInput

SpecBlocks == InitSpecBlocks /\ [][NextBlocks]_vars

SpecBlock == InitSpecBlock /\ [][NextBlock]_vars

SpecCull == InitSpecCull /\ [][NextCull]_vars

SpecInterp == InitSpecInterp /\ [][NextInterp]_vars

SpecChunk == InitSpecChunk /\ [][NextChunk]_vars

Spec == Init /\ [][NextApp]_vars

C3_PlaneNames == {"nx", "px", "ny", "py", "nz", "pz"}

\* the signed distance (up to the plane's positive scale) of a point
C3_SignedDistance(p, v) == p[1] * v[1] + p[2] * v[2] + p[3] * v[3] + p[4]

\* the positive vertex of a box for a plane: per axis max if the normal
\* component is >= 0, else min; the negative vertex is the opposite corner
C3_PositiveVertex(p, b) == [i \in 1 .. 3 |-> IF p[i] >= 0 THEN b.max[i] ELSE b.min[i]]

C3_NegativeVertex(p, b) == [i \in 1 .. 3 |-> IF p[i] >= 0 THEN b.min[i] ELSE b.max[i]]

\* C3: test_bounding_box returns one of Inside / Partial / Outside; Outside
\* iff some plane has its positive vertex at negative signed distance, Inside
\* iff every plane has both vertices at non-negative distance, Partial in the
\* remaining cases.
C3_Classification ==
    cullResult # None =>
        LET out == \E n \in C3_PlaneNames :
                      C3_SignedDistance(culler[n], C3_PositiveVertex(culler[n], aab)) < 0
            in  == \A n \in C3_PlaneNames :
                      /\ C3_SignedDistance(culler[n], C3_PositiveVertex(culler[n], aab)) >= 0
                      /\ C3_SignedDistance(culler[n], C3_NegativeVertex(culler[n], aab)) >= 0
        IN  /\ cullResult \in {"Inside", "Partial", "Outside"}
            /\ (cullResult = "Outside") <=> out
            /\ (cullResult = "Inside") <=> in
            /\ (cullResult = "Partial") <=> (~out /\ ~in)

\* a box that straddles a slanted plane and was classified Partial
C3_Witness ==
    /\ cullResult = "Partial"
    /\ \E n \in C3_PlaneNames : culler[n][1] < 0 /\ culler[n][2] > 0
    /\ aab.min # aab.max

\* C4: once a box is classified Inside, every box inside it is classified
\* Inside too (so never Outside), for the same frustum.
C4_Monotone ==
    (cullPrev = "Inside" /\ cullResult # None
        /\ LeqV(cullPrevBox.min, aab.min) /\ LeqV(aab.min, aab.max)
        /\ LeqV(aab.max, cullPrevBox.max))
        => cullResult = "Inside"

C4_Witness ==
    /\ cullPrev = "Inside"
    /\ cullResult = "Inside"
    /\ cullPrevBox.min # cullPrevBox.max
    /\ aab # cullPrevBox

(***************************************************************************)
(* App::render: the visibility filter                                      *)
(***************************************************************************)
\* C5: while App::render draws, a model's render buffer was collected if and
\* only if its box is not Outside the frame's frustum and its squared
\* distance to the camera is strictly below z_far squared (a model at exactly
\* z_far squared is left out); every render command interpreted belongs to
\* such a model, and once the loop is through, the commands interpreted for
\* each such model are its whole render buffer.
C5_VisibilityFilter ==
    pc = "draw" =>
        LET Seen(i)  == TestBoundingBox(culling, models[i].model.aabb) # "Outside"
            Near(i)  == DistanceSquared(models[i].model.position, camera.position)
                            < ZFar * ZFar
            Asked(i) == \E k \in DOMAIN drawList : drawList[k].model = i
            Of(i)    == SelectSeq(drawLog, LAMBDA e : e.model = i)
        IN  /\ \A i \in DOMAIN models : Asked(i) <=> (Seen(i) /\ Near(i))
            /\ \A i \in DOMAIN models :
                  DistanceSquared(models[i].model.position, camera.position) = ZFar * ZFar
                      => ~Asked(i)
            /\ \A k \in DOMAIN drawLog :
                  /\ drawLog[k].model \in DOMAIN models
                  /\ Seen(drawLog[k].model) /\ Near(drawLog[k].model)
            /\ (~aborted /\ ~RenderPlacesLeft) =>
                  \A i \in DOMAIN models :
                     (Seen(i) /\ Near(i)) =>
                        [k \in DOMAIN Of(i) |-> Of(i)[k].cmd] = models[i].model.render

\* a frame was drawn in which one model stood at exactly z_far from the
\* camera, inside the frustum, and contributed nothing, while another was drawn
C5_Witness ==
    /\ pc = "draw" /\ ~aborted /\ ~RenderPlacesLeft
    /\ drawLog # <<>>
    /\ \E i \in DOMAIN models :
          /\ DistanceSquared(models[i].model.position, camera.position) = ZFar * ZFar
          /\ TestBoundingBox(culling, models[i].model.aabb) # "Outside"
          /\ \A k \in DOMAIN drawLog : drawLog[k].model # i

(***************************************************************************)
(* App::update: collecting the buffers, then interpreting them             *)
(***************************************************************************)
\* C6: once a command of the frame has been interpreted, every actor that
\* stood in the registry when the frame began has returned its buffer, and no
\* buffer is returned or changed any more until the frame's update ends; the
\* update never ends with an actor's update() outstanding.
C6_CollectThenApply ==
    /\ [](appliedLog # <<>> =>
             /\ Len(buffers) = Len(frameActors)
             /\ \A i \in DOMAIN buffers :
                   buffers[i].returned /\ buffers[i].by = frameActors[i])
    /\ [][/\ (appliedLog # <<>> /\ pc' = "update") => buffers' = buffers
          /\ (pc = "update" /\ pc' = "render") =>
                /\ Len(buffers) = Len(frameActors)
                /\ \A i \in DOMAIN buffers : buffers[i].returned]_vars

\* two actors returned commands, and the first command was interpreted
C6_Witness ==
    /\ pc = "update"
    /\ Len(appliedLog) = 1
    /\ Len(buffers) = 2
    /\ buffers[1].cmds # <<>> /\ buffers[2].cmds # <<>>

\* C7: the places interpreted so far in a frame are the first ones of the
\* walk that goes through the buffers in the order the actors stood in the
\* registry when the frame began, and through each buffer from its first
\* command to its last, skipping nothing.
C7_UpdateCommandOrder ==
    (pc = "update" /\ appliedLog # <<>>) =>
        LET NoneBetween(a, b) == \A j \in (a + 1) .. (b - 1) : buffers[j].cmds = <<>>
        IN  /\ \A i \in DOMAIN buffers : buffers[i].by = frameActors[i]
            /\ \A k \in DOMAIN appliedLog :
                  /\ appliedLog[k][1] \in DOMAIN buffers
                  /\ appliedLog[k][2] \in DOMAIN buffers[appliedLog[k][1]].cmds
            /\ appliedLog[1][2] = 1 /\ NoneBetween(0, appliedLog[1][1])
            /\ \A k \in 1 .. (Len(appliedLog) - 1) :
                  LET a == appliedLog[k]
                      b == appliedLog[k + 1]
                  IN  IF a[2] < Len(buffers[a[1]].cmds)
                      THEN b = <<a[1], a[2] + 1>>
                      ELSE b[1] > a[1] /\ b[2] = 1 /\ NoneBetween(a[1], b[1])

\* both commands of the first actor's buffer, then the second actor's first
C7_Witness ==
    /\ pc = "update"
    /\ Len(buffers) = 2
    /\ appliedLog = <<<<1, 1>>, <<1, 2>>, <<2, 1>>>>
    /\ frameActors = <<2, 1>>

(***************************************************************************)
(* The camera between App::update and App::render                          *)
(***************************************************************************)
\* the camera after the camera commands among the first n of cmds
RECURSIVE C8_CameraAfter(_, _, _)
C8_CameraAfter(cam, cmds, n) ==
    IF n = 0 THEN cam
    ELSE LET before == C8_CameraAfter(cam, cmds, n - 1)
             c      == cmds[n]
         IN  CASE c.op = "MoveCamera" -> MovePosition(before, c.offset)
               [] c.op = "RotateCamera" -> AddPitch(AddYaw(before, c.yaw), c.pitch)
               [] OTHER -> before

\* C8: when the update of a frame has interpreted its last command, the
\* camera is the one the frame began with after every MoveCamera and
\* RotateCamera of the frame's buffers; the matrix stored at the end of the
\* update, and the frustum and the camera position the visibility filter of
\* the same frame uses, are those of that camera, with no command of the
\* frame left to interpret.
C8_SameFrameCulling ==
    /\ (pc = "update" /\ ~aborted /\ CollectDone(buffers) /\ ~PlacesLeft) =>
          LET all == Concat(buffers, Len(buffers))
          IN  camera = C8_CameraAfter(camStart, all, Len(all))
    /\ pc \in {"render", "draw"} => (unapplied = 0 /\ viewProj = ViewProj(camera))
    /\ pc = "draw" =>
          /\ culling = FromMatrix(ViewProj(camera))
          /\ camPosition = camera.position
          /\ drawList = Collect(models, FromMatrix(ViewProj(camera)), camera.position,
                                Len(models))

\* the camera moved in this frame, and this frame's filter already gives
\* another list than the camera the frame began with would have given
C8_Witness ==
    /\ pc = "draw"
    /\ camera.position # camStart.position
    /\ drawList # Collect(models, FromMatrix(ViewProj(camStart)), camStart.position,
                          Len(models))

\* C9: the camera changes only in a step that interprets a MoveCamera or a
\* RotateCamera command of the update's sequential loop: every buffer has
\* been returned by then and none changes in the step, and the step is no
\* part of the visibility filter or of the render commands' interpretation.
C9_CameraWritesSerialized ==
    [][camera' # camera =>
          /\ pc = "update" /\ pc' = "update"
          /\ \A i \in DOMAIN buffers : buffers[i].returned
          /\ buffers' = buffers
          /\ Len(appliedLog') = Len(appliedLog) + 1
          /\ LET p == appliedLog'[Len(appliedLog')]
             IN  buffers[p[1]].cmds[p[2]].op \in {"MoveCamera", "RotateCamera"}
          /\ drawList' = drawList /\ drawLog' = drawLog
          /\ culling' = culling /\ camPosition' = camPosition]_vars

\* a RotateCamera was just interpreted and turned the camera
C9_Witness ==
    /\ pc = "update"
    /\ appliedLog # <<>>
    /\ LET p == appliedLog[Len(appliedLog)]
       IN  buffers[p[1]].cmds[p[2]].op = "RotateCamera"
    /\ camera.yaw # camStart.yaw
    /\ camera.pitch # camStart.pitch

(***************************************************************************)
(* App::parse_update_command: removing what is not there                   *)
(***************************************************************************)
\* C10: a step that interprets RemoveModel(id) while no model of the registry
\* has the id, or RemoveActor(id) while no actor has it, does not panic and
\* leaves the model registry, the actor registry and the camera as they were.
C10_RemoveAbsentIsNoOp ==
    [][(/\ pc = "update"
        /\ Len(appliedLog') = Len(appliedLog) + 1
        /\ LET p == appliedLog'[Len(appliedLog')]
               c == buffers[p[1]].cmds[p[2]]
           IN  \/ /\ c.op = "RemoveModel"
                  /\ \A i \in DOMAIN models : models[i].model.id # c.id
               \/ /\ c.op = "RemoveActor"
                  /\ \A i \in DOMAIN actors : actors[i] # c.id)
          => (/\ models' = models
              /\ actors' = actors
              /\ camera' = camera
              /\ ~aborted')]_vars

\* the first command of a frame was RemoveModel(2), no model had the id 2
\* when the frame began, and the registry still holds what it held
C10_Witness ==
    /\ pc = "update" /\ ~aborted
    /\ appliedLog = <<<<1, 1>>>>
    /\ buffers[1].cmds[1] = RemoveModel(2)
    /\ frameModels # <<>>
    /\ \A i \in DOMAIN frameModels : frameModels[i].model.id # 2
    /\ models = frameModels

\* the <<index, length of the list it addresses>> pairs of an interpreter call
C11_Indices(l) ==
    LET c == l.cmd
        nm == l.nm
        target == IF l.phase = "setup" /\ c.op = "SharePipeline"
                  THEN GetModel(l.ms, c.id) ELSE 0
    IN  CASE l.phase = "setup" /\ c.op = "CreateBindGroup" ->
               {<<c.resources[k], Len(nm.buffers)>> : k \in DOMAIN c.resources}
          [] l.phase = "setup" /\ c.op = "CreatePipeline" ->
               {<<c.bind_groups[k], Len(nm.bind_groups)>> : k \in DOMAIN c.bind_groups}
          [] l.phase = "setup" /\ c.op = "SharePipeline" ->
               {<<c.idx, Len(l.ms[k].pipelines)>> : k \in {target} \ {0}}
          [] l.phase = "update" /\ c.op = "UpdateBuffer" ->
               {<<c.idx, Len(l.ms[k].buffers)>> : k \in {nm} \ {0}}
          [] l.phase = "render" /\ c.op = "SetPipeline" -> {<<c.idx, Len(nm.pipelines)>>}
          [] l.phase = "render" /\ c.op \in {"SetVertexBuffer", "SetIndexBuffer"} ->
               {<<c.idx, Len(nm.buffers)>>}
          [] l.phase = "render" /\ c.op = "SetBindGroup" -> {<<c.idx, Len(nm.bind_groups)>>}
          [] l.phase = "render" /\ c.op = "DrawModelIndexed" ->
               {<<c.idx, objModels>>}
                   \cup {<<c.bind_groups[k], Len(nm.bind_groups)>> : k \in DOMAIN c.bind_groups}
          [] OTHER -> {}

C11_OutOfRange(l) == \E p \in C11_Indices(l) : p[1] >= p[2]

\* C11: a setup, update or render command with an index that is not smaller
\* than the length of the list it addresses panics: the process aborts, no
\* call reaches the render pass, and no table or registry changes.
C11_OutOfRangeIsFatal ==
    C11_OutOfRange(lastCall)
        => /\ aborted
           /\ lastCall.call = NoRenderCall
           /\ models = lastCall.ms
           /\ lastCall.phase = "setup" => nModel = lastCall.nm

C11_Witness ==
    /\ aborted
    /\ lastCall.phase = "render"
    /\ lastCall.cmd = SetIndexBuffer(2, "Uint32")
    /\ Len(lastCall.nm.buffers) = 2

\* the resource list a setup command adds to
C12_ListOf(nm, c) ==
    CASE c.op = "CreateBuffer" -> nm.buffers
      [] c.op = "CreateBindGroup" -> nm.bind_groups
      [] c.op \in {"CreatePipeline", "SharePipeline"} -> nm.pipelines

\* C12: a setup buffer is all-or-abort: every command the setup loop took up
\* either added exactly one entry to its resource list or aborted the
\* process, and a loop that did not abort took up every command of the
\* buffer; SharePipeline of an id that is not registered is no silent skip.
C12_SetupAllOrAbort ==
    /\ \A k \in DOMAIN setupTrace :
          LET t == setupTrace[k]
          IN  IF t.ok
              THEN Len(C12_ListOf(t.after, t.cmd)) = Len(C12_ListOf(t.before, t.cmd)) + 1
              ELSE aborted /\ t.after = t.before /\ k = Len(setupTrace)
    /\ (setupTrace # <<>> /\ \A k \in DOMAIN setupTrace : setupTrace[k].ok)
          => Len(setupTrace) = Len(setupTrace[1].before.model.setup)

\* the update command interpreted last in the frame
C13_LastCommand ==
    LET place == appliedLog[Len(appliedLog)]
    IN  buffers[place[1]].cmds[place[2]]

\* C13: when the command interpreted last is UpdateBuffer(id, idx) and no
\* model with that id is in the registry, the process is aborted.
C13_AbsentLookupIsFatal ==
    (/\ pc = "update"
     /\ appliedLog # <<>>
     /\ C13_LastCommand.op = "UpdateBuffer"
     /\ GetModel(models, C13_LastCommand.id) = 0)
        => aborted

\* the model was registered when the frame began and was removed by the
\* RemoveModel that precedes the UpdateBuffer in the same buffer
C13_Witness ==
    /\ pc = "update"
    /\ aborted
    /\ GetModel(frameModels, 1) # 0
    /\ Len(appliedLog) >= 2
    /\ C13_LastCommand = UpdateBuffer(1, 0)
    /\ LET place == appliedLog[Len(appliedLog) - 1]
       IN  buffers[place[1]].cmds[place[2]] = RemoveModel(1)
    /\ GetModel(models, 1) = 0

\* C14: once with_position was called with a component that does not fit
\* the per-axis field, the process is terminated: no Block is returned in
\* which the excess bits spilled into another axis or into the id.
C14_WidePositionIsFatal ==
    (Called("with_position") /\ ~FitsPosition(blkPos)) => aborted

\* the places <<model, pipeline slot>> of the registry that hold handle h
C15_Holders(ms, h) ==
    UNION {{<<i, k>> : k \in {n \in DOMAIN ms[i].pipelines : ms[i].pipelines[n] = h}} :
              i \in DOMAIN ms}

\* a model was pushed by the step
C15_Pushed == Len(models') = Len(models) + 1 /\ SubSeq(models', 1, Len(models)) = models

\* C15: the live pipelines are exactly those some registered model holds,
\* each with one strong count per holding (so a pipeline outlives its
\* creator while another model holds it, and is released with its last
\* holder); and a model registered with SharePipeline(A, idx), A registered,
\* holds the very handle A.pipelines[idx].
C15_SharedPipelineLifetime ==
    /\ [](~aborted =>
             /\ DOMAIN pipelineRefs = LiveHandles(models)
             /\ \A h \in DOMAIN pipelineRefs :
                   pipelineRefs[h] = Cardinality(C15_Holders(models, h)))
    /\ [][(~aborted' /\ C15_Pushed) =>
             \A k \in DOMAIN setupTrace' :
                LET t == setupTrace'[k]
                    a == GetModel(models, t.cmd.id)
                IN  (t.cmd.op = "SharePipeline" /\ a # 0) =>
                        t.after.pipelines =
                            Append(t.before.pipelines, models[a].pipelines[t.cmd.idx + 1])]_vars

\* the creator (id 1) is gone, the model that shared its pipeline is still
\* registered, holds the only handle and has just selected the pipeline
C15_Witness ==
    /\ ~aborted
    /\ pc = "draw"
    /\ Len(models) = 1
    /\ models[1].model.id = 2
    /\ Len(models[1].pipelines) = 1
    /\ pipelineRefs[models[1].pipelines[1]] = 1
    /\ drawLog # <<>>
    /\ drawLog[1].cmd = SetPipeline(0)

\* the blocks were added at pairwise distinct positions inside the chunk
C16_DistinctLocal ==
    /\ \A i \in DOMAIN chunkAdded : FitsPosition(chunkAdded[i][1])
    /\ \A i, j \in DOMAIN chunkAdded : chunkAdded[i][1] = chunkAdded[j][1] => i = j

\* C16: after setup() of a chunk whose blocks were added by add_block_data
\* at pairwise distinct local positions, the block buffer holds exactly one
\* 4-byte record per block, in the order added, and the instance of record i
\* is at chunk origin * chunk edge + p_i with id id_i.
C16_InstanceData ==
    (chunkCall = "setup" /\ C16_DistinctLocal)
        => LET uniform == chunkSetup[1].payload
               data    == chunkSetup[2].payload
               o       == chunk.position
           IN  /\ Len(data) = 4 * Len(chunkAdded)
               /\ \A i \in DOMAIN chunkAdded :
                     LET p == chunkAdded[i][1]
                     IN  ShaderInstance(uniform, U32OfBytes(data, 4 * (i - 1))) =
                            [position |-> <<o[1] * ChunkEdge + p[1], o[2] * ChunkEdge + p[2],
                                            o[3] * ChunkEdge + p[3]>>,
                             id |-> chunkAdded[i][2]]

\* the chunk at the origin with the single block ((1, 2, 3), 7)
C16_Witness ==
    /\ chunkCall = "setup"
    /\ chunk.position = <<0, 0, 0>>
    /\ chunkAdded = << <<<<1, 2, 3>>, 7>> >>
    /\ Len(chunkSetup[2].payload) = 4
    /\ ShaderInstance(chunkSetup[1].payload, U32OfBytes(chunkSetup[2].payload, 0)) =
          [position |-> <<1, 2, 3>>, id |-> 7]

\* C17: render() of a chunk of n blocks returns exactly a pipeline
\* selection, a binding of the block buffer at a vertex slot and one indexed
\* draw of n instances (n = 0 included).
C17_RenderProgram ==
    chunkCall = "render"
        => /\ ~aborted
           /\ Len(chunkRender) = 3
           /\ chunkRender[1].op = "SetPipeline"
           /\ chunkRender[2].op = "SetVertexBuffer"
           /\ chunkRender[3].op = "DrawIndexed"
           /\ chunkRender[3].instances = Len(chunk.blocks)

\* C18: the Aabb of a chunk at origin o has min = o * E and max = min + E
\* on every axis, E the chunk edge.
C18_ChunkAabb ==
    \A i \in 1 .. 3 :
       /\ chunk.aabb.min[i] = chunk.position[i] * ChunkEdge
       /\ chunk.aabb.max[i] = chunk.aabb.min[i] + ChunkEdge

\* the step pushed a model: the registry grew by one entry at its end
C20_Pushed == Len(models') = Len(models) + 1 /\ SubSeq(models', 1, Len(models)) = models

\* the setup loop recorded in trace took up every command of m's setup
\* buffer, in order, starting from NModel::new(m) and ending in nm
C20_CompleteSetup(trace, m, nm) ==
    /\ Len(trace) = Len(m.setup)
    /\ \A k \in DOMAIN trace :
          /\ trace[k].cmd = m.setup[k]
          /\ trace[k].ok
          /\ trace[k].before = IF k = 1 THEN NewNModel(m) ELSE trace[k - 1].after
    /\ nm = IF trace = <<>> THEN NewNModel(m) ELSE trace[Len(trace)].after

\* C20: a model enters the registry only in a step (add_model or a
\* CreateModel command) that first ran its whole setup buffer, once, and
\* enters with the table that run built; no other step runs a setup loop,
\* and no step changes the table of a model that stays registered.
C20_SetupOnceBeforePush ==
    [][~aborted' =>
          /\ C20_Pushed =>
                C20_CompleteSetup(setupTrace', models'[Len(models')].model,
                                  models'[Len(models')])
          /\ ~C20_Pushed =>
                /\ setupTrace' = setupTrace
                /\ \A i \in DOMAIN models' : \E j \in DOMAIN models : models'[i] = models[j]]_vars

\* a CreateModel command has just registered the model that builds two
\* buffers, a bind group and a pipeline
C20_Witness ==
    /\ pc = "update"
    /\ ~aborted
    /\ appliedLog # <<>>
    /\ C13_LastCommand = CreateModel(ModelNear)
    /\ Len(setupTrace) = 4
    /\ models[Len(models)] = setupTrace[4].after
    /\ Len(models[Len(models)].buffers) = 2
    /\ Len(models[Len(models)].bind_groups) = 1
    /\ Len(models[Len(models)].pipelines) = 1

\* how many of the first n records of a setup history added to the list
\* that the command c adds to
C21_Earlier(trace, n, c) ==
    Cardinality({j \in 1 .. n :
        \/ trace[j].cmd.op = c.op
        \/ {trace[j].cmd.op, c.op} = {"CreatePipeline", "SharePipeline"}})

\* C21: when a setup loop has taken up its whole buffer, the resource of
\* the k-th CreateBuffer is at index k of the buffers of the table built,
\* that of the k-th CreateBindGroup at index k of its bind groups, and the
\* pipeline of the k-th CreatePipeline or SharePipeline (counted together)
\* at index k of its pipelines, k from 0.
C21_PositionalIndices ==
    (setupTrace # <<>> /\ \A k \in DOMAIN setupTrace : setupTrace[k].ok)
        => LET final == setupTrace[Len(setupTrace)].after
           IN  \A k \in DOMAIN setupTrace :
                  LET c    == setupTrace[k].cmd
                      idx  == C21_Earlier(setupTrace, k - 1, c)
                      list == C12_ListOf(final, c)
                  IN  /\ idx < Len(list)
                      /\ c.op = "CreateBuffer" => list[idx + 1] = c.payload
                      /\ c.op = "CreateBindGroup" => list[idx + 1] = c.resources
                      /\ c.op \in {"CreatePipeline", "SharePipeline"} =>
                            /\ Len(setupTrace[k].after.pipelines) = idx + 1
                            /\ list[idx + 1] = setupTrace[k].after.pipelines[idx + 1]

\* place q is the one interpreted right after place p: the next command of
\* the same model, or the first command of the next model that has any
C22_Follows(p, q) ==
    \/ q[1] = p[1] /\ q[2] = p[2] + 1
    \/ /\ q[1] > p[1]
       /\ q[2] = 1
       /\ p[2] = Len(drawList[p[1]].cmds)
       /\ \A b \in (p[1] + 1) .. (q[1] - 1) : drawList[b].cmds = <<>>

\* C22: in App::render the collected list holds the surviving models in
\* registry order, each with the buffer its render() returned; the commands
\* are interpreted model after model, each model's buffer as one run in the
\* order pushed; and the list is complete before the first command is
\* interpreted.
C22_RenderSerial ==
    /\ [](pc = "draw" =>
             /\ \A i, j \in DOMAIN drawList : i < j => drawList[i].model < drawList[j].model
             /\ \A i \in DOMAIN drawList :
                   drawList[i].cmds = models[drawList[i].model].model.render
             /\ \A k \in DOMAIN drawLog :
                   LET p == drawLog[k].place
                   IN  /\ drawLog[k].model = drawList[p[1]].model
                       /\ drawLog[k].cmd = drawList[p[1]].cmds[p[2]]
                       /\ k = 1 => p[2] = 1 /\ \A b \in 1 .. (p[1] - 1) : drawList[b].cmds = <<>>
                       /\ k > 1 => C22_Follows(drawLog[k - 1].place, p))
    /\ [][(drawLog' # <<>> /\ drawLog' # drawLog) => drawList' = drawList]_vars

\* two models survived the filter and both buffers were interpreted
C22_Witness ==
    /\ pc = "draw"
    /\ ~aborted
    /\ Len(drawList) = 2
    /\ Len(drawLog) = Len(drawList[1].cmds) + Len(drawList[2].cmds)
    /\ drawLog[Len(drawList[1].cmds)].model = 1
    /\ drawLog[Len(drawList[1].cmds) + 1].model = 2

\* C23: test_bounding_box evaluates the plane tests in the order nx, px, ny,
\* py, nz, pz, a plane's positive-vertex test before its negative-vertex
\* test; the first failed positive-vertex test is the last test evaluated and
\* the result is then Outside; a negative-vertex test is evaluated only
\* right after the same plane's positive-vertex test has passed.
C23_PlaneOrder ==
    cullResult # None =>
        /\ cullSteps # <<>>
        /\ \A k \in DOMAIN cullSteps :
              LET s == cullSteps[k]
              IN  /\ s.plane = PlaneOrder[(k + 1) \div 2]
                  /\ s.vertex = (IF k % 2 = 1 THEN "positive" ELSE "negative")
                  /\ s.pass = OnInnerSide(culler[s.plane],
                                 IF s.vertex = "positive" THEN FarCorner(culler[s.plane], aab)
                                 ELSE NearCorner(culler[s.plane], aab))
                  /\ (s.vertex = "positive" /\ ~s.pass) =>
                        k = Len(cullSteps) /\ cullResult = "Outside"
                  /\ s.vertex = "negative" =>
                        \A j \in {k - 1} : /\ cullSteps[j].plane = s.plane
                                           /\ cullSteps[j].vertex = "positive"
                                           /\ cullSteps[j].pass
        /\ cullResult = "Outside" =>
              cullSteps[Len(cullSteps)].vertex = "positive" /\ ~cullSteps[Len(cullSteps)].pass
        /\ cullResult # "Outside" => Len(cullSteps) = 2 * Len(PlaneOrder)

\* a box rejected at the third plane, after two planes it straddles or passes
C23_Witness ==
    /\ cullResult = "Outside"
    /\ Len(cullSteps) = 5
    /\ ~cullSteps[2].pass

\* registry t is registry s with its first hit removed: one entry less, the
\* last entry at the vacated index, every other entry at its own index
C24_FirstHitRemoved(s, t, hits) ==
    LET i == CHOOSE k \in hits : \A j \in hits : k <= j
        n == Len(s)
    IN  /\ Len(t) = n - 1
        /\ \A k \in 1 .. (n - 1) : t[k] = (IF k = i THEN s[n] ELSE s[k])
        /\ \A k \in (DOMAIN s) \ hits : Cardinality({j \in DOMAIN t : t[j] = s[k]})
                                            = Cardinality({j \in DOMAIN s : s[j] = s[k]})

\* C24: interpreting RemoveModel(id) with a model of that id registered
\* removes the first model with the id in registry order: the registry is
\* one shorter, its last entry is at the vacated index, every other entry is
\* at its index, and entries with other ids are neither lost nor duplicated;
\* the actor registry is untouched.  RemoveActor(id) does the same to the
\* actor registry and leaves the models alone.
C24_RemoveFirstSwapLast ==
    [][lastCall'.phase = "update" =>
          LET c == lastCall'.cmd
              modelHits == {k \in DOMAIN models : models[k].model.id = c.id}
              actorHits == {k \in DOMAIN actors : actors[k] = c.id}
          IN  /\ (c.op = "RemoveModel" /\ modelHits # {}) =>
                    C24_FirstHitRemoved(models, models', modelHits) /\ actors' = actors
              /\ (c.op = "RemoveActor" /\ actorHits # {}) =>
                    C24_FirstHitRemoved(actors, actors', actorHits) /\ models' = models]_vars

\* the first of three models was removed while a later one has the same id
C24_Witness ==
    /\ lastCall.phase = "update"
    /\ lastCall.cmd.op = "RemoveModel"
    /\ Len(lastCall.ms) = 3
    /\ lastCall.nm = 1
    /\ lastCall.ms[2].model.id = lastCall.cmd.id
    /\ lastCall.ms[3].model.id # lastCall.cmd.id
    /\ models = <<lastCall.ms[3], lastCall.ms[2]>>

\* C25: what mouse_delta() returns to the actors of a frame is the cursor
\* movement summed over the CursorMoved events since the last update()
\* ((0, 0) without events); every actor of the frame gets the same value;
\* and update() resets the state only once all actors were updated.
C25_AccumulatedDelta ==
    /\ [](\A k \in DOMAIN inputReads :
            /\ inputReads[k].num[1] = inputReads[k].den * inputSum[1]
            /\ inputReads[k].num[2] = inputReads[k].den * inputSum[2]
            /\ inputReads[k] = inputReads[1])
    /\ [][(inputState.mouse_sample > 0 /\ inputState'.mouse_sample = 0)
             => Len(inputReads) = InputActors]_vars

\* C26: the step that interprets FovCamera(v) leaves the projection's
\* vertical field of view equal to v.
C26_FovApplied ==
    [][(Len(appliedLog') = Len(appliedLog) + 1 /\ NextCommand.op = "FovCamera")
          => projection'.fov_y = NextCommand.fov]_vars

\* C27: right after RemoveModel(id) has been interpreted, get_model(id)
\* finds no model (so UpdateBuffer(id, _) reaches none); as the lookup takes
\* the first model with the id, this says that no second model with the id
\* was registered.
C27_RemovedIsGone ==
    [][(Len(appliedLog') = Len(appliedLog) + 1 /\ NextCommand.op = "RemoveModel")
          => GetModel(models', NextCommand.id) = 0]_vars

\* C28: right after remove_block(p), exists_block(p) is false; and
\* remove_block(p) for a position no block of the list has leaves the list
\* as it was.
C28_RemovedBlockIsGone ==
    [][chunkCall' = "remove_block" =>
          /\ ~ExistsBlock(chunk', chunkArg')
          /\ ~ExistsBlock(chunk, chunkArg') => chunk'.blocks = chunk.blocks]_vars

\* how often the actor id occurs in a registry
C29_Count(as, id) == Cardinality({k \in DOMAIN as : as[k] = id})

\* C29: the actors updated in a frame are the actors registered when the
\* frame began: CreateActor appends to the registry and adds no buffer to
\* the frame, and the next frame updates the registry as it then is;
\* RemoveActor(b) takes one b out of the registry and leaves the frame's
\* buffers alone, and when the update ends every command of every buffer
\* returned in the frame has been interpreted, b's included.
C29_ActorLifecycle ==
    /\ [](pc = "update" =>
             /\ Len(buffers) = Len(frameActors)
             /\ \A i \in DOMAIN buffers : buffers[i].by = frameActors[i])
    /\ [][(pc = "idle" /\ pc' = "update") => frameActors' = actors]_vars
    /\ [][Len(appliedLog') = Len(appliedLog) + 1 =>
             /\ buffers' = buffers /\ frameActors' = frameActors
             /\ NextCommand.op = "CreateActor" => actors' = Append(actors, NextCommand.actor)
             /\ NextCommand.op = "RemoveActor" =>
                   \A id \in ActorIds :
                      C29_Count(actors', id) =
                         (IF id = NextCommand.id /\ C29_Count(actors, id) > 0
                          THEN C29_Count(actors, id) - 1 ELSE C29_Count(actors, id))]_vars
    /\ [][(pc = "update" /\ pc' = "render") => appliedLog = Places(buffers, Len(buffers))]_vars

\* a command of an actor's buffer is interpreted after the RemoveActor that
\* took the actor out of the registry, in the same frame
C29_Witness ==
    /\ pc = "update"
    /\ ~aborted
    /\ \E i, j \in DOMAIN appliedLog :
          LET c == buffers[appliedLog[i][1]].cmds[appliedLog[i][2]]
              b == buffers[appliedLog[j][1]].by
          IN  /\ i < j
              /\ appliedLog[i][1] # appliedLog[j][1]
              /\ c.op = "RemoveActor"
              /\ c.id = b
              /\ C29_Count(actors, b) = 0

\* C30: the camera's pitch is always within [-SAFE_FRAC_PI_2,
\* SAFE_FRAC_PI_2]; the step that interprets RotateCamera(yaw, pitch) adds
\* yaw to the camera's yaw as it is and leaves the position alone; the step
\* that interprets MoveCamera(offset) adds offset to the position and leaves
\* yaw and pitch alone.
C30_PitchClamped ==
    /\ [](camera.pitch >= -PitchLimit /\ camera.pitch <= PitchLimit)
    /\ [][Len(appliedLog') = Len(appliedLog) + 1 =>
             /\ NextCommand.op = "RotateCamera" =>
                   /\ camera'.yaw = camera.yaw + NextCommand.yaw
                   /\ camera'.position = camera.position
             /\ NextCommand.op = "MoveCamera" =>
                   /\ camera'.position = VAdd(camera.position, NextCommand.offset)
                   /\ camera'.yaw = camera.yaw
                   /\ camera'.pitch = camera.pitch]_vars

\* a RotateCamera whose pitch alone leads below the limit was interpreted
\* and the pitch rests on the limit, the camera moved and turned meanwhile
C30_Witness ==
    /\ pc = "update"
    /\ ~aborted
    /\ camera.pitch = -PitchLimit
    /\ camera.yaw # InitCamera.yaw
    /\ camera.position # InitCamera.position
    /\ \E j \in DOMAIN appliedLog :
          LET c == buffers[appliedLog[j][1]].cmds[appliedLog[j][2]]
          IN  c.op = "RotateCamera" /\ c.pitch < -PitchLimit

====
